---- MODULE Spec2Model ----
(***************************************************************************)
(* Verification model of the list-query engine as it is composed by        *)
(* WalletTransactionList (src/src/pages/customer/payments/                 *)
(* WalletTransactionList.tsx): live/committed filter and sort criteria,    *)
(* the debounce timers, the pagination state, the main and the probe       *)
(* query, and the view the component renders from them.                    *)
(*                                                                         *)
(* The component body (lines 28-193) is modelled from the source.  The     *)
(* hooks it calls (useFilterSorting, usePagination,                        *)
(* useQueryWithEmptyState) and the operator registry live outside the      *)
(* available sources; they are modelled from sections 4.1-4.6 and 5 of     *)
(* the specification.                                                      *)
(*                                                                         *)
(* Time is counted in milliseconds.  One action is one task of the event   *)
(* loop: a handler together with the render and the effects it causes.     *)
(* `trace` holds the events (commit, reset, fetch, discarded response) of  *)
(* the last task, in the order in which they happened.                     *)
(*                                                                         *)
(* Three dialogs of the repository are modelled from their sources after   *)
(* the view, each with its own variables and its own specification:        *)
(* FeatureAlertDialog, ForceRunDrawer (src/unnamed/part_003) and           *)
(* QuickBooksConnectionDrawer (src/unnamed/part_001).                      *)
(***************************************************************************)
EXTENDS Integers, Sequences, FiniteSets, TLC

VARIABLES
    mounted,            \* the component is mounted
    users,              \* the getAllUsers query: "loading", "some" (users were
                        \* fetched), "none" (it failed or fetched no user)
    filters,            \* live filter criteria (useFilterSorting)
    sorts,              \* live sort criteria (useFilterSorting)
    sanitizedFilters,   \* committed filter criteria
    sanitizedSorts,     \* committed sort criteria
    timersF,            \* pending commit timers of the filters slot (ms left)
    timersS,            \* pending commit timers of the sorts slot (ms left)
    page,               \* usePagination().page
    mainQuery,          \* main query of the current key: [status, items, total]
    probeQuery,         \* probe query of the current key: [status, items, total]
    inflight,           \* requests sent and not yet answered: [kind, key]
    trace,              \* events of the last task, in order
    quietF,             \* ms since the last setFilters call (capped)
    quietS,             \* ms since the last setSorts call (capped)
    callsF,             \* setFilters calls since the last commit of the filters slot
    callsS,             \* setSorts calls since the last commit of the sorts slot
    edits,              \* setFilters, setSorts and page changes so far
    probesIssued,       \* probe fetches issued in the current query cycle
    firstFetch,         \* parameters of the first main fetch
    \* FeatureAlertDialog
    open,               \* prop: the dialog is shown
    alertSettings,      \* prop: the alert settings of the feature, or undefined
    localAlertSettings, \* the settings being edited
    alertTrace,         \* calls (onSave, onClose, toast.error) of the last handler
    \* ForceRunDrawer
    isOpen,             \* prop: the modal is shown
    exportLoading,      \* prop isLoading: an export is being started
    runType,            \* "current" or "custom"
    startDateTime,      \* [date, time] of the start of the range
    endDateTime,        \* [date, time] of the end of the range
    errors,             \* validation errors by field
    runTrace,           \* calls (onConfirm, onOpenChange) of the last handler
    \* QuickBooksConnectionDrawer
    sheetOpen,          \* prop isOpen: the sheet is shown
    connection,         \* prop: the connection being edited, or undefined
    formData,           \* the form
    formErrors,         \* state errors: validation messages by field
    mutation,           \* the create or update mutation that is pending, or idle
    qbTrace             \* calls (API, onSave, onOpenChange, toast) of the last task

vars == <<mounted, users, filters, sorts, sanitizedFilters, sanitizedSorts,
          timersF, timersS, page, mainQuery, probeQuery, inflight, trace,
          quietF, quietS, callsF, callsS, edits, probesIssued, firstFetch>>

alertVars == <<open, alertSettings, localAlertSettings, alertTrace>>

forceRunVars == <<isOpen, exportLoading, runType, startDateTime, endDateTime, errors,
                  runTrace>>

quickBooksVars == <<sheetOpen, connection, formData, formErrors, mutation, qbTrace>>

(* the components that are not part of the wallet transaction view *)
others == <<alertVars, forceRunVars, quickBooksVars>>

-----------------------------------------------------------------------------
(* Bounds of the model *)

MaxPage == 2
MaxInFlight == 2
MaxEdits == 4
MaxLiveEdits == 2
MaxCriteria == 3
Quantum == 250

-----------------------------------------------------------------------------
(* Values *)

Undefined == [kind |-> "undefined", str |-> "", arr |-> <<>>]
Null == [kind |-> "null", str |-> "", arr |-> <<>>]
Str(s) == [kind |-> "string", str |-> s, arr |-> <<>>]
Arr(a) == [kind |-> "array", str |-> "", arr |-> a]

Min(a, b) == IF a <= b THEN a ELSE b

-----------------------------------------------------------------------------
(* Criteria & Operator Registry (4.1) *)

DEFAULT_OPERATORS_PER_DATA_TYPE ==
    [STRING  |-> <<"EQUALS", "NOT_EQUALS", "CONTAINS">>,
     NUMBER  |-> <<"EQUALS", "NOT_EQUALS">>,
     DATE    |-> <<"BEFORE", "AFTER">>,
     BOOLEAN |-> <<"EQUALS">>,
     ARRAY   |-> <<"IS_ANY_OF", "IS_NOT_ANY_OF">>]

Range(seq) == {seq[i] : i \in 1..Len(seq)}

(* filterOptions: the Created By field only when the users were fetched *)
filterOptions ==
    IF users # "some"
    THEN << [field |-> "created_at", label |-> "Created At",
             fieldType |-> "DATEPICKER",
             operators |-> DEFAULT_OPERATORS_PER_DATA_TYPE.DATE,
             dataType |-> "DATE"] >>
    ELSE << [field |-> "created_by", label |-> "Created By",
             fieldType |-> "MULTI_SELECT",
             operators |-> <<"IS_ANY_OF", "IS_NOT_ANY_OF">>,
             dataType |-> "ARRAY"],
            [field |-> "created_at", label |-> "Created At",
             fieldType |-> "DATEPICKER",
             operators |-> DEFAULT_OPERATORS_PER_DATA_TYPE.DATE,
             dataType |-> "DATE"] >>

-----------------------------------------------------------------------------
(* Sanitizer (4.2) *)

EmptyValue(v) ==
    \/ v.kind = "undefined"
    \/ v.kind = "null"
    \/ v.kind = "string" /\ v.str = ""
    \/ v.kind = "array" /\ Len(v.arr) = 0

(* no FilterField with the key of the criterion excludes its operator *)
OperatorAllowed(c, fields) ==
    \A i \in 1..Len(fields) :
        fields[i].field = c.field => c.operator \in Range(fields[i].operators)

KeepCriterion(c, fields) == ~EmptyValue(c.value) /\ OperatorAllowed(c, fields)

Reverse(seq) == [i \in 1..Len(seq) |-> seq[Len(seq) + 1 - i]]

sanitizeFiltersNewestFirst(criteria, fields) ==
    LET Keep(c) == KeepCriterion(c, fields)
    IN  Reverse(SelectSeq(criteria, Keep))

sanitizeFilters(criteria, fields) ==
    LET Keep(c) == KeepCriterion(c, fields)
    IN  SelectSeq(criteria, Keep)

KeepSort(s) == s.field # "" /\ s.direction # ""

sanitizeSorts(criteria) == SelectSeq(criteria, KeepSort)

-----------------------------------------------------------------------------
(* The component's configuration *)

(* sortingOptions / the arguments of the useFilterSorting call *)
CreatedAtDesc == [field |-> "created_at", label |-> "Created At", direction |-> "desc"]
CreatedAtAsc == [field |-> "created_at", label |-> "Created At", direction |-> "asc"]
CreatedAtNoDirection == [field |-> "created_at", label |-> "Created At", direction |-> ""]

useFilterSortingArgsNoDebounce ==
    [initialFilters |-> <<>>, initialSorts |-> <<CreatedAtDesc>>, debounceTime |-> 0]

useFilterSortingArgs ==
    [initialFilters |-> <<>>, initialSorts |-> <<CreatedAtDesc>>, debounceTime |-> 500]

debounceTime == useFilterSortingArgs.debounceTime

(* the FilterField definitions the call hands to the hook: it hands none,   *)
(* filterOptions goes to the QueryBuilder only (line 181)                   *)
useFilterSortingFields == <<>>

(* the debounceTime the component passes, as the claims state it *)
DebounceWindow == 500

(* usePagination() *)
limit == 10
offset(p) == (p - 1) * limit

(* criteria the query builder can hand to setFilters / setSorts *)
Before2024 == [field |-> "created_at", operator |-> "BEFORE", value |-> Str("2024-01-01")]
AfterBlank == [field |-> "created_at", operator |-> "AFTER", value |-> Str("")]

FilterInputs == { <<>>, <<AfterBlank>>, <<Before2024, AfterBlank>> }
SortInputs == { <<CreatedAtDesc>>, <<CreatedAtNoDirection, CreatedAtAsc>> }

(* criteria of the FilterCondition type: complete ones, ones whose value is *)
(* still missing, and one whose operator is not among the operators of the  *)
(* Created By field (line 69)                                               *)
CreatedByU1 == [field |-> "created_by", operator |-> "IS_ANY_OF", value |-> Arr(<<"u1">>)]
CreatedByNoUser == [field |-> "created_by", operator |-> "IS_NOT_ANY_OF", value |-> Arr(<<>>)]
CreatedByEquals == [field |-> "created_by", operator |-> "EQUALS", value |-> Arr(<<"u1">>)]
CreatedAtNull == [field |-> "created_at", operator |-> "BEFORE", value |-> Null]
CreatedAtUndefined == [field |-> "created_at", operator |-> "AFTER", value |-> Undefined]

FilterCriteria ==
    {Before2024, AfterBlank, CreatedByU1, CreatedByNoUser, CreatedByEquals,
     CreatedAtNull, CreatedAtUndefined}

NoFieldAsc == [field |-> "", label |-> "", direction |-> "asc"]

SortCriteria == {CreatedAtDesc, CreatedAtAsc, CreatedAtNoDirection, NoFieldAsc}

(* the lists of at most n members of S *)
Lists(S, n) == UNION {[1..k -> S] : k \in 0..n}

-----------------------------------------------------------------------------
(* JSON.stringify of a criteria list, as the sequence of its tokens.  A     *)
(* member whose value is undefined is left out, as JSON.stringify does.     *)

StringifyValue(v) ==
    IF v.kind = "null" THEN <<"null">>
    ELSE IF v.kind = "string" THEN <<"\"", v.str, "\"">>
    ELSE <<"[">> \o v.arr \o <<"]">>

StringifyFilter(c) ==
    <<"{", "field", c.field, "operator", c.operator>>
    \o (IF c.value.kind = "undefined" THEN <<>>
        ELSE <<"value">> \o StringifyValue(c.value))
    \o <<"}">>

StringifySort(s) == <<"{", "field", s.field, "label", s.label, "direction", s.direction, "}">>

RECURSIVE StringifyFilterList(_)
StringifyFilterList(seq) ==
    IF seq = <<>> THEN <<>>
    ELSE StringifyFilter(Head(seq)) \o StringifyFilterList(Tail(seq))

RECURSIVE StringifySortList(_)
StringifySortList(seq) ==
    IF seq = <<>> THEN <<>>
    ELSE StringifySort(Head(seq)) \o StringifySortList(Tail(seq))

StringifyFilters(f) == <<"[">> \o StringifyFilterList(f) \o <<"]">>
StringifySorts(s) == <<"[">> \o StringifySortList(s) \o <<"]">>

-----------------------------------------------------------------------------
(* Queries *)

(* main.queryKey *)
MainKeyWithoutSorts(p, f, s) ==
    <<"fetchAllWalletTransactions", p, StringifyFilters(f), StringifySorts(<<>>)>>

MainKeyWithoutPage(p, f, s) ==
    <<"fetchAllWalletTransactions", 1, StringifyFilters(f), StringifySorts(s)>>

MainKey(p, f, s) ==
    <<"fetchAllWalletTransactions", p, StringifyFilters(f), StringifySorts(s)>>

(* probe.queryKey *)
ProbeKey(p, f, s) ==
    <<"fetchAllWalletTransactions", "probe", p, StringifyFilters(f), StringifySorts(s)>>

(* fetchWalletTransactions: the parameters of the main request *)
fetchWalletTransactionsUnsorted(p, f, s) ==
    [limit |-> limit, offset |-> offset(p), filters |-> f, sort |-> <<>>,
     expand |-> "customer,created_by_user"]

fetchWalletTransactionsLive(p, f, s) ==
    [limit |-> limit, offset |-> offset(p), filters |-> filters, sort |-> sorts,
     expand |-> "customer,created_by_user"]

fetchWalletTransactions(p, f, s) ==
    [limit |-> limit, offset |-> offset(p), filters |-> f, sort |-> s,
     expand |-> "customer,created_by_user"]

(* probe.queryFn: the parameters of the probe request *)
probeQueryFnOfView ==
    [limit |-> 1, offset |-> offset(page), filters |-> sanitizedFilters,
     sort |-> sanitizedSorts, expand |-> ""]

probeQueryFn == [limit |-> 1, offset |-> 0, filters |-> <<>>, sort |-> <<>>, expand |-> ""]

Pending == [status |-> "pending", items |-> <<>>, total |-> 0]
Idle == [status |-> "idle", items |-> <<>>, total |-> 0]
Rejected == [status |-> "error", items |-> <<>>, total |-> 0]
Resolved(items) == [status |-> "success", items |-> items, total |-> Len(items)]

Outcomes == { Rejected, Resolved(<<>>), Resolved(<<"a">>) }

(* shouldProbe: mainData?.items.length === 0 *)
shouldProbeAlways(mainData) == TRUE

shouldProbeWhenNotEmpty(mainData) == mainData.status = "success" /\ Len(mainData.items) # 0

shouldProbe(mainData) == mainData.status = "success" /\ Len(mainData.items) = 0

CurrentMainKey == MainKey(page, sanitizedFilters, sanitizedSorts)
CurrentProbeKey == ProbeKey(page, sanitizedFilters, sanitizedSorts)

(* a request in flight, tagged with its key, and the parameters it carries *)
Req(kind, key, params) == [kind |-> kind, key |-> key, params |-> params]

InFlight(inf, kind, key) == \E r \in inf : r.kind = kind /\ r.key = key

(* useQueryWithEmptyState: what the hook returns for a main and a probe     *)
(* query (4.5)                                                              *)
shouldRunProbe(main) == main.status = "success" /\ shouldProbe(main)

isLoadingOf(main, probe) ==
    \/ main.status = "pending"
    \/ shouldRunProbe(main) /\ probe.status = "pending"

isErrorOf(main, probe) == main.status = "error" \/ probe.status = "error"

isLoading == isLoadingOf(mainQuery, probeQuery)
isError == isErrorOf(mainQuery, probeQuery)
isUsersLoading == users = "loading"

(* showEmptyPage:                                                           *)
(*   !isLoading && probeData?.items.length === 0                            *)
(*              && transactionsData?.items.length === 0                     *)
showEmptyPageMainOnly(main, probe) ==
    /\ ~isLoadingOf(main, probe)
    /\ main.status = "success" /\ Len(main.items) = 0

showEmptyPageEither(main, probe) ==
    /\ ~isLoadingOf(main, probe)
    /\ \/ probe.status = "success" /\ Len(probe.items) = 0
       \/ main.status = "success" /\ Len(main.items) = 0

showEmptyPageOf(main, probe) ==
    /\ ~isLoadingOf(main, probe)
    /\ probe.status = "success" /\ Len(probe.items) = 0
    /\ main.status = "success" /\ Len(main.items) = 0

showEmptyPage == showEmptyPageOf(mainQuery, probeQuery)

(* The branches the component takes on the list query, in their order       *)
(* (lines 139-178), named as the states of 4.5.  The last branch renders    *)
(* the list: with items it is Populated, without it is FilteredEmpty.       *)
StateIgnoringError(main, probe) ==
    IF isLoadingOf(main, probe) THEN "Loading"
    ELSE IF showEmptyPageOf(main, probe) THEN "TrueEmpty"
    ELSE IF main.status = "success" /\ Len(main.items) > 0 THEN "Populated"
    ELSE "FilteredEmpty"

StateOf(main, probe) ==
    IF isLoadingOf(main, probe) THEN "Loading"
    ELSE IF isErrorOf(main, probe) THEN "Error"
    ELSE IF showEmptyPageOf(main, probe) THEN "TrueEmpty"
    ELSE IF main.status = "success" /\ Len(main.items) > 0 THEN "Populated"
    ELSE "FilteredEmpty"

State == StateOf(mainQuery, probeQuery)

(* what the component returns *)
RenderWithoutErrorCard ==
    IF isLoading \/ isUsersLoading THEN "Loader"
    ELSE IF showEmptyPage THEN "NoWalletTransactions"
    ELSE "List"

Render ==
    IF isLoading \/ isUsersLoading THEN "Loader"
    ELSE IF isError THEN "ErrorCard"
    ELSE IF showEmptyPage THEN "NoWalletTransactions"
    ELSE "List"

-----------------------------------------------------------------------------
(* Events of a task *)

CommitEv(slot, changed, quiet, calls, value) ==
    [ev |-> "commit", slot |-> slot, changed |-> changed, quiet |-> quiet,
     calls |-> calls, value |-> value]
ResetEv == [ev |-> "reset"]
FetchEv(kind, key, params) == [ev |-> "fetch", kind |-> kind, key |-> key, params |-> params]
DiscardEv(r) == [ev |-> "discard", kind |-> r.kind]

(* the request of a render with page p and committed criteria f, s, when    *)
(* the key it renders differs from the key k0 of the render before it       *)
MainFetchEvs(k0, p, f, s, inf) ==
    IF MainKey(p, f, s) # k0 /\ ~InFlight(inf, "main", MainKey(p, f, s))
    THEN <<FetchEv("main", MainKey(p, f, s), fetchWalletTransactions(p, f, s))>>
    ELSE <<>>

MainFetchReqs(k0, p, f, s, inf) ==
    IF MainKey(p, f, s) # k0 /\ ~InFlight(inf, "main", MainKey(p, f, s))
    THEN {Req("main", MainKey(p, f, s), fetchWalletTransactions(p, f, s))}
    ELSE {}

-----------------------------------------------------------------------------
(* Pagination Controller (4.4) *)

resetPageKeepsPage(p) == p

resetPage(p) == 1

-----------------------------------------------------------------------------
(* Debounced State Controller (4.3) *)

KeepTimers(timers) == timers

CancelTimers(timers) == {}

StartTimerNever(timers) == CancelTimers(timers)

StartTimer(timers) == CancelTimers(timers) \cup {debounceTime}

(* The effect of lines 105-107: reset() is called after every render in    *)
(* which sanitizedFilters or sanitizedSorts is a new array.                 *)
useEffectResetNever(published) == <<>>

useEffectReset(published) == IF published THEN <<ResetEv>> ELSE <<>>

(* A commit of the criteria f, s.  The component renders with the new       *)
(* criteria and the page of that render, and the query of the rendered key  *)
(* is fetched with the parameters of that render; the effect calls          *)
(* reset(), the page it sets is rendered, and the key of that render is     *)
(* fetched.  The effect is declared before the query (line 105, line 114),  *)
(* so reset() is called before the first of the two fetches is sent.        *)
Commit(slot, f, s, quiet, calls) ==
    LET k0 == CurrentMainKey
        changed == f # sanitizedFilters \/ s # sanitizedSorts
        resets == useEffectReset(TRUE)
        p1 == page
        p2 == IF Len(resets) > 0 THEN resetPage(page) ELSE page
        k1 == MainKey(p1, f, s)
        k2 == MainKey(p2, f, s)
        inf1 == inflight \cup MainFetchReqs(k0, p1, f, s, inflight)
        inf2 == inf1 \cup MainFetchReqs(k1, p2, f, s, inf1)
    IN  /\ Cardinality(inf2) <= MaxInFlight
        /\ sanitizedFilters' = f
        /\ sanitizedSorts' = s
        /\ page' = p2
        /\ inflight' = inf2
        /\ trace' = <<CommitEv(slot, changed, quiet, calls,
                               IF slot = "filters" THEN f ELSE s)>>
                    \o resets
                    \o MainFetchEvs(k0, p1, f, s, inflight)
                    \o MainFetchEvs(k1, p2, f, s, inf1)
        /\ IF k2 # k0
           THEN mainQuery' = Pending /\ probeQuery' = Idle /\ probesIssued' = 0
           ELSE UNCHANGED <<mainQuery, probeQuery, probesIssued>>

setFilters(f) ==
    /\ mounted /\ Render = "List"
    /\ edits < MaxEdits
    /\ filters' = f
    /\ timersF' = StartTimer(timersF)
    /\ quietF' = 0
    /\ callsF' = callsF + 1
    /\ edits' = edits + 1
    /\ trace' = <<>>
    /\ UNCHANGED <<others, mounted, users, sorts, sanitizedFilters, sanitizedSorts, timersS,
                   page, mainQuery, probeQuery, inflight, quietS, callsS,
                   probesIssued, firstFetch>>

setSorts(s) ==
    /\ mounted /\ Render = "List"
    /\ edits < MaxEdits
    /\ sorts' = s
    /\ timersS' = StartTimer(timersS)
    /\ quietS' = 0
    /\ callsS' = callsS + 1
    /\ edits' = edits + 1
    /\ trace' = <<>>
    /\ UNCHANGED <<others, mounted, users, filters, sanitizedFilters, sanitizedSorts, timersF,
                   page, mainQuery, probeQuery, inflight, quietF, callsF,
                   probesIssued, firstFetch>>

FiltersTimerFires ==
    /\ mounted
    /\ 0 \in timersF
    /\ timersF' = timersF \ {0}
    /\ Commit("filters", sanitizeFilters(filters, useFilterSortingFields), sanitizedSorts,
              quietF, callsF)
    /\ callsF' = 0
    /\ UNCHANGED <<others, mounted, users, filters, sorts, timersS, quietF, quietS, callsS,
                   firstFetch, edits>>

SortsTimerFires ==
    /\ mounted
    /\ 0 \in timersS
    /\ timersS' = timersS \ {0}
    /\ Commit("sorts", sanitizedFilters, sanitizeSorts(sorts), quietS, callsS)
    /\ callsS' = 0
    /\ UNCHANGED <<others, mounted, users, filters, sorts, timersF, quietF, quietS, callsF,
                   firstFetch, edits>>

(* the passage of time, up to the next timer that is due *)
Elapse(timers, d) == {t - d : t \in timers}

Advance ==
    LET due == timersF \cup timersS
        d == IF due = {} THEN Quantum
             ELSE Min(Quantum, CHOOSE t \in due : \A u \in due : t <= u)
    IN  /\ mounted
        /\ d > 0
        /\ quietF < DebounceWindow \/ quietS < DebounceWindow
        /\ timersF' = Elapse(timersF, d)
        /\ timersS' = Elapse(timersS, d)
        /\ quietF' = Min(quietF + d, DebounceWindow)
        /\ quietS' = Min(quietS + d, DebounceWindow)
        /\ trace' = <<>>
        /\ UNCHANGED <<others, mounted, users, filters, sorts, sanitizedFilters, sanitizedSorts,
                       page, mainQuery, probeQuery, inflight, callsF, callsS,
                       probesIssued, firstFetch, edits>>

-----------------------------------------------------------------------------
(* The pagination control of the list *)

GoToPage(p) ==
    LET k0 == CurrentMainKey
        inf1 == inflight \cup MainFetchReqs(k0, p, sanitizedFilters, sanitizedSorts,
                                            inflight)
    IN  /\ mounted /\ Render = "List"
        /\ p # page
        /\ edits < MaxEdits
        /\ edits' = edits + 1
        /\ Cardinality(inf1) <= MaxInFlight
        /\ page' = p
        /\ inflight' = inf1
        /\ IF MainKey(p, sanitizedFilters, sanitizedSorts) # k0
           THEN mainQuery' = Pending /\ probeQuery' = Idle /\ probesIssued' = 0
           ELSE UNCHANGED <<mainQuery, probeQuery, probesIssued>>
        /\ trace' = MainFetchEvs(k0, p, sanitizedFilters, sanitizedSorts, inflight)
        /\ UNCHANGED <<others, mounted, users, filters, sorts, sanitizedFilters, sanitizedSorts,
                       timersF, timersS, quietF, quietS, callsF, callsS, firstFetch>>

-----------------------------------------------------------------------------
(* Responses *)

(* a response is applied only if its key is still the current key *)
AppliesAfterTeardown(r) ==
    \/ r.kind = "main" /\ r.key = CurrentMainKey /\ mainQuery.status = "pending"
    \/ r.kind = "probe" /\ r.key = CurrentProbeKey /\ probeQuery.status = "pending"

Applies(r) ==
    /\ mounted
    /\ \/ r.kind = "main" /\ r.key = CurrentMainKey /\ mainQuery.status = "pending"
       \/ r.kind = "probe" /\ r.key = CurrentProbeKey /\ probeQuery.status = "pending"

MainSettles(r, result) ==
    /\ r \in inflight /\ r.kind = "main"
    /\ trace' = IF ~Applies(r) THEN <<DiscardEv(r)>>
                 ELSE IF shouldRunProbe(result)
                         /\ ~InFlight(inflight, "probe", CurrentProbeKey)
                 THEN <<FetchEv("probe", CurrentProbeKey, probeQueryFn)>>
                 ELSE <<>>
    /\ IF Applies(r)
       THEN /\ mainQuery' = result
            /\ IF shouldRunProbe(result)
               THEN /\ probeQuery' = Pending
                    /\ inflight' =
                           IF InFlight(inflight, "probe", CurrentProbeKey)
                           THEN inflight \ {r}
                           ELSE (inflight \ {r})
                                \cup {Req("probe", CurrentProbeKey, probeQueryFn)}
                    /\ probesIssued' = probesIssued + 1
               ELSE /\ probeQuery' = Idle
                    /\ inflight' = inflight \ {r}
                    /\ probesIssued' = probesIssued
       ELSE /\ inflight' = inflight \ {r}
            /\ UNCHANGED <<mainQuery, probeQuery, probesIssued>>
    /\ UNCHANGED <<others, mounted, users, filters, sorts, sanitizedFilters, sanitizedSorts,
                   timersF, timersS, page, quietF, quietS, callsF, callsS, firstFetch, edits>>

ProbeSettles(r, result) ==
    /\ r \in inflight /\ r.kind = "probe"
    /\ inflight' = inflight \ {r}
    /\ probeQuery' = IF Applies(r) THEN result ELSE probeQuery
    /\ trace' = IF Applies(r) THEN <<>> ELSE <<DiscardEv(r)>>
    /\ UNCHANGED <<others, mounted, users, filters, sorts, sanitizedFilters, sanitizedSorts,
                   timersF, timersS, page, mainQuery, quietF, quietS, callsF, callsS,
                   probesIssued, firstFetch, edits>>

UsersSettle(result) ==
    /\ mounted
    /\ users = "loading"
    /\ users' = result
    /\ trace' = <<>>
    /\ UNCHANGED <<others, mounted, filters, sorts, sanitizedFilters, sanitizedSorts,
                   timersF, timersS, page, mainQuery, probeQuery, inflight,
                   quietF, quietS, callsF, callsS, probesIssued, firstFetch, edits>>

(* the view is torn down: pending timers are cancelled *)
Unmount ==
    /\ mounted
    /\ mounted' = FALSE
    /\ timersF' = CancelTimers(timersF)
    /\ timersS' = CancelTimers(timersS)
    /\ trace' = <<>>
    /\ UNCHANGED <<others, users, filters, sorts, sanitizedFilters, sanitizedSorts,
                   page, mainQuery, probeQuery, inflight,
                   quietF, quietS, callsF, callsS, probesIssued, firstFetch, edits>>

-----------------------------------------------------------------------------
(* The first render of the component and its effects *)

MountCommitted ==
    [filters |-> sanitizeFilters(useFilterSortingArgs.initialFilters,
                                 useFilterSortingFields),
     sorts |-> sanitizeSorts(useFilterSortingArgs.initialSorts)]

(* the page renders the wallet transaction view and none of the dialogs *)
OthersNotRendered ==
    /\ open = Null /\ alertSettings = Null /\ localAlertSettings = Null
    /\ alertTrace = Null
    /\ isOpen = Null /\ exportLoading = Null /\ runType = Null
    /\ startDateTime = Null /\ endDateTime = Null /\ errors = Null
    /\ runTrace = Null
    /\ sheetOpen = Null /\ connection = Null /\ formData = Null
    /\ formErrors = Null /\ mutation = Null /\ qbTrace = Null

Init ==
    /\ mounted = TRUE
    /\ users = "loading"
    /\ filters = useFilterSortingArgs.initialFilters
    /\ sorts = useFilterSortingArgs.initialSorts
    /\ sanitizedFilters = MountCommitted.filters
    /\ sanitizedSorts = MountCommitted.sorts
    /\ timersF = {}
    /\ timersS = {}
    /\ page = 1
    /\ mainQuery = Pending
    /\ probeQuery = Idle
    /\ inflight = {Req("main", MainKey(1, MountCommitted.filters, MountCommitted.sorts),
                       fetchWalletTransactions(1, MountCommitted.filters,
                                               MountCommitted.sorts))}
    /\ trace = useEffectReset(TRUE) \o
                <<FetchEv("main", MainKey(1, MountCommitted.filters, MountCommitted.sorts),
                         fetchWalletTransactions(1, MountCommitted.filters,
                                                 MountCommitted.sorts))>>
    /\ quietF = DebounceWindow
    /\ quietS = DebounceWindow
    /\ callsF = 0
    /\ callsS = 0
    /\ edits = 0
    /\ probesIssued = 0
    /\ firstFetch = fetchWalletTransactions(1, MountCommitted.filters,
                                            MountCommitted.sorts)
    /\ OthersNotRendered

Next ==
    \/ \E f \in FilterInputs : setFilters(f)
    \/ \E s \in SortInputs : setSorts(s)
    \/ FiltersTimerFires
    \/ SortsTimerFires
    \/ Advance
    \/ \E p \in 1..MaxPage : GoToPage(p)
    \/ \E r \in inflight, result \in Outcomes : MainSettles(r, result)
    \/ \E r \in inflight, result \in Outcomes : ProbeSettles(r, result)
    \/ \E result \in {"none", "some"} : UsersSettle(result)

(* the life of the mounted view *)
Spec == Init /\ [][Next]_vars

(* The view with its list shown, 500 ms after a setFilters call with any    *)
(* list of criteria, or after a setSorts call with any list of sorts: the   *)
(* commit timer of the slot is due.                                         *)
InitEdited ==
    /\ mounted = TRUE
    /\ users \in {"none", "some"}
    /\ \/ /\ filters \in Lists(FilterCriteria, MaxCriteria)
          /\ sorts = useFilterSortingArgs.initialSorts
          /\ timersF = {0} /\ timersS = {}
          /\ callsF = 1 /\ callsS = 0
       \/ /\ filters = useFilterSortingArgs.initialFilters
          /\ sorts \in Lists(SortCriteria, MaxCriteria)
          /\ timersF = {} /\ timersS = {0}
          /\ callsF = 0 /\ callsS = 1
    /\ sanitizedFilters = MountCommitted.filters
    /\ sanitizedSorts = MountCommitted.sorts
    /\ page = 1
    /\ mainQuery = Resolved(<<"a">>)
    /\ probeQuery = Idle
    /\ inflight = {}
    /\ trace = <<>>
    /\ quietF = DebounceWindow
    /\ quietS = DebounceWindow
    /\ edits = 1
    /\ probesIssued = 0
    /\ firstFetch = fetchWalletTransactions(1, MountCommitted.filters,
                                            MountCommitted.sorts)
    /\ OthersNotRendered

NextSanitizer == FiltersTimerFires \/ SortsTimerFires

(* the commits of the sanitized criteria *)
SpecSanitizer == InitEdited /\ [][NextSanitizer]_vars

(* the life of the view, its teardown included *)
NextTeardown == Next \/ Unmount

SpecTeardown == Init /\ [][NextTeardown]_vars

(* The mounted view when time passes, a timer that is due fires, and every  *)
(* request that was sent is answered.                                       *)
Fairness ==
    /\ WF_vars(Advance)
    /\ WF_vars(FiltersTimerFires)
    /\ WF_vars(SortsTimerFires)
    /\ WF_vars(\E r \in inflight, result \in Outcomes : MainSettles(r, result))
    /\ WF_vars(\E r \in inflight, result \in Outcomes : ProbeSettles(r, result))

(* the user acts at most MaxLiveEdits times *)
NextLive ==
    \/ edits < MaxLiveEdits /\ \E f \in FilterInputs : setFilters(f)
    \/ edits < MaxLiveEdits /\ \E s \in SortInputs : setSorts(s)
    \/ FiltersTimerFires
    \/ SortsTimerFires
    \/ Advance
    \/ edits < MaxLiveEdits /\ \E p \in 1..MaxPage : GoToPage(p)
    \/ \E r \in inflight, result \in Outcomes : MainSettles(r, result)
    \/ \E r \in inflight, result \in Outcomes : ProbeSettles(r, result)
    \/ \E result \in {"none", "some"} : UsersSettle(result)

SpecLive == Init /\ [][NextLive]_vars /\ Fairness

-----------------------------------------------------------------------------
(* Properties of the empty-state resolution *)

MainEmpty == mainQuery.status = "success" /\ Len(mainQuery.items) = 0
MainPopulated == mainQuery.status = "success" /\ Len(mainQuery.items) > 0
ProbeEmpty == probeQuery.status = "success" /\ Len(probeQuery.items) = 0
ProbePopulated == probeQuery.status = "success" /\ Len(probeQuery.items) > 0

ProbeStates == {Idle, Pending} \cup Outcomes

ProbeFetchInTrace == \E i \in 1..Len(trace) : trace[i].ev = "fetch" /\ trace[i].kind = "probe"

(* C1: when the main fetch and the probe fetch of the current cycle have    *)
(* both succeeded with zero items the state is TrueEmpty, and the component *)
(* returns the "No Wallet Transactions" page once the users lookup has      *)
(* settled; in every other combination of main and probe outcomes the state *)
(* is not TrueEmpty and that page is not returned.                          *)
C1_TrueEmptyIffBothEmpty ==
    /\ (MainEmpty /\ ProbeEmpty) <=> State = "TrueEmpty"
    /\ MainEmpty /\ ProbeEmpty /\ ~isUsersLoading => Render = "NoWalletTransactions"
    /\ Render = "NoWalletTransactions" => MainEmpty /\ ProbeEmpty

C1_Witness == MainEmpty /\ ProbeEmpty /\ Render = "NoWalletTransactions"

(* C2: when the main fetch succeeded with zero items and the probe fetch    *)
(* succeeded with at least one item the state is FilteredEmpty, not         *)
(* TrueEmpty, and the component returns the list with the query builder     *)
(* once the users lookup has settled.                                       *)
C2_FilteredEmptyKeepsList ==
    MainEmpty /\ ProbePopulated =>
        /\ State = "FilteredEmpty"
        /\ ~isUsersLoading => Render = "List"

C2_Witness == MainEmpty /\ ProbePopulated /\ Render = "List"

(* C3: when the main fetch succeeded with at least one item the state is    *)
(* Populated and no probe fetch was issued in the cycle: the probe query is *)
(* idle and the cycle's count of probe fetches is zero.                     *)
C3_PopulatedWithoutProbe ==
    MainPopulated =>
        /\ State = "Populated"
        /\ probesIssued = 0
        /\ probeQuery = Idle
        /\ ~ProbeFetchInTrace

C3_Witness == MainPopulated /\ Render = "List" /\ page = 2

(* C4: when the main fetch succeeded with zero items and the probe fetch    *)
(* was rejected the state is Error, and the component returns the error     *)
(* card, never the empty page nor the list, once the users lookup has       *)
(* settled.                                                                 *)
C4_ProbeFailureIsError ==
    MainEmpty /\ probeQuery.status = "error" =>
        /\ State = "Error"
        /\ ~isUsersLoading => Render = "ErrorCard"

C4_Witness == MainEmpty /\ probeQuery.status = "error" /\ Render = "ErrorCard"

(* C5: when the main fetch was rejected the state is Error for every state  *)
(* the probe query can be in (idle, pending, empty, non-empty, rejected),   *)
(* and the component returns the error card once the users lookup has       *)
(* settled.                                                                 *)
C5_MainFailureIsError ==
    mainQuery.status = "error" =>
        /\ \A probe \in ProbeStates : StateOf(mainQuery, probe) = "Error"
        /\ State = "Error"
        /\ ~isUsersLoading => Render = "ErrorCard"

C5_Witness == mainQuery.status = "error" /\ Render = "ErrorCard" /\ sanitizedFilters # <<>>

(* C6: a probe fetch is issued only in a cycle whose main fetch has         *)
(* succeeded with zero items: the probe query is idle, no probe fetch was   *)
(* counted and no probe fetch is sent while the main fetch is pending,      *)
(* after it was rejected, and after it returned items.                      *)
C6_ProbeOnlyAfterEmptyMain ==
    /\ probeQuery # Idle => MainEmpty
    /\ probesIssued > 0 => MainEmpty
    /\ \A i \in 1..Len(trace) :
           trace[i].ev = "fetch" /\ trace[i].kind = "probe" =>
               MainEmpty /\ trace[i].key = CurrentProbeKey

C6_Witness == ProbeFetchInTrace /\ probeQuery = Pending /\ page = 2

-----------------------------------------------------------------------------
(* Properties of the debounced commit *)

CommitIn(i) == trace[i].ev = "commit"
MainFetchIn(i) == trace[i].ev = "fetch" /\ trace[i].kind = "main"
ResetIn(i) == trace[i].ev = "reset"

LiveSanitized(slot) ==
    IF slot = "filters" THEN sanitizeFilters(filters, useFilterSortingFields)
    ELSE sanitizeSorts(sorts)

(* what holds of the commits and the timers of a state *)
CommitsFollowQuiet ==
    /\ \A i \in 1..Len(trace) :
           CommitIn(i) =>
               /\ trace[i].calls >= 1
               /\ trace[i].quiet >= 500
               /\ trace[i].value = LiveSanitized(trace[i].slot)
               /\ trace[i].slot = "filters" => sanitizedFilters = trace[i].value
               /\ trace[i].slot = "sorts" => sanitizedSorts = trace[i].value
    /\ callsF >= 1 => timersF = {500 - quietF}
    /\ callsS >= 1 => timersS = {500 - quietS}
    /\ callsF = 0 => timersF = {}
    /\ callsS = 0 => timersS = {}

(* what holds of a step: only a commit changes the committed value *)
OnlyCommitsPublish ==
    /\ sanitizedFilters' # sanitizedFilters =>
           \E i \in 1..Len(trace') : trace'[i].ev = "commit" /\ trace'[i].slot = "filters"
    /\ sanitizedSorts' # sanitizedSorts =>
           \E i \in 1..Len(trace') : trace'[i].ev = "commit" /\ trace'[i].slot = "sorts"
    /\ (callsF >= 1 /\ callsF' = 0) =>
           \E i \in 1..Len(trace') : trace'[i].ev = "commit" /\ trace'[i].slot = "filters"
    /\ (callsS >= 1 /\ callsS' = 0) =>
           \E i \in 1..Len(trace') : trace'[i].ev = "commit" /\ trace'[i].slot = "sorts"

(* C7: a burst of setFilters (or setSorts) calls, each less than 500 ms     *)
(* after the one before, is committed exactly once.  The committed value    *)
(* of a slot changes only in a commit; every commit follows at least one    *)
(* call that was not yet committed and 500 ms without a call to its slot,   *)
(* and publishes the sanitized value of the last call; as long as calls     *)
(* are uncommitted exactly one timer of the slot is pending, due 500 ms     *)
(* after the last call, and the calls stay uncommitted until it fires.      *)
C7_BurstCommitsOnce == []CommitsFollowQuiet /\ [][OnlyCommitsPublish]_vars

(* three setFilters calls in one burst, committed once with the last value *)
C7_Witness ==
    \E i \in 1..Len(trace) :
        /\ CommitIn(i) /\ trace[i].slot = "filters"
        /\ trace[i].calls = 3
        /\ trace[i].changed
        /\ trace[i].value = <<Before2024>>

-----------------------------------------------------------------------------
(* Properties of the mount and of the pagination reset *)

SeededFilters == sanitizeFilters(<<>>, useFilterSortingFields)
SeededSorts == sanitizeSorts(<<CreatedAtDesc>>)

(* C8: on first mount the committed filters and sorts are the sanitized     *)
(* initial filters and sorts of the useFilterSorting call, with no timer    *)
(* started, and they stay so until the user first acts; the first main      *)
(* fetch is the one of the mount, sent with the seeded criteria at offset   *)
(* 0.                                                                       *)
C8_SeededOnMount ==
    /\ firstFetch.filters = SeededFilters
    /\ firstFetch.sort = SeededSorts
    /\ firstFetch.offset = 0
    /\ edits = 0 =>
           /\ sanitizedFilters = SeededFilters
           /\ sanitizedSorts = SeededSorts
           /\ timersF = {} /\ timersS = {}
           /\ \A i \in 1..Len(trace) :
                  MainFetchIn(i) => /\ trace[i].params.filters = SeededFilters
                                    /\ trace[i].params.sort = SeededSorts

(* the first fetch has resolved before any edit was made *)
C8_Witness ==
    /\ edits = 0 /\ page = 1
    /\ MainPopulated /\ Render = "List"
    /\ sanitizedSorts = <<CreatedAtDesc>>

AfterChangedCommit(j) == \E i \in 1..(j - 1) : CommitIn(i) /\ trace[i].changed

C10_NoStalePageWithNewCriteria ==
    \A j \in 1..Len(trace) :
        MainFetchIn(j) /\ AfterChangedCommit(j) => trace[j].params.offset = 0

-----------------------------------------------------------------------------
(* Properties of the pagination state *)

(* C11: the page is a number from 1 on; every main request is sent with the *)
(* limit of the first one and with offset = (page - 1) * limit for the page *)
(* of its key, and so is the request of the current key while it is in      *)
(* flight; after a call of reset() the page is 1, so the request of the     *)
(* current key has offset 0, and the limit is the one before the call.      *)
C11_PaginationState ==
    /\ page \in Nat /\ page >= 1
    /\ \A i \in 1..Len(trace) :
           MainFetchIn(i) =>
               /\ trace[i].params.limit = firstFetch.limit
               /\ trace[i].params.offset = (trace[i].key[2] - 1) * trace[i].params.limit
    /\ \A r \in inflight :
           r.kind = "main" /\ r.key = CurrentMainKey =>
               /\ r.params.limit = firstFetch.limit
               /\ r.params.offset = (page - 1) * r.params.limit
    /\ (\E i \in 1..Len(trace) : ResetIn(i)) =>
           /\ page = 1
           /\ \A r \in inflight :
                  r.kind = "main" /\ r.key = CurrentMainKey =>
                      r.params.offset = 0 /\ r.params.limit = firstFetch.limit

(* reset() was called on page 2: a request with offset 10 was sent before *)
C11_Witness ==
    /\ page = 1
    /\ \E i \in 1..Len(trace) : ResetIn(i)
    /\ \E j \in 1..Len(trace) : MainFetchIn(j) /\ trace[j].params.offset = 10
    /\ \E r \in inflight : r.kind = "main" /\ r.key = CurrentMainKey

-----------------------------------------------------------------------------
(* Properties of the sanitizers *)

RECURSIVE IsSubseq(_, _)
IsSubseq(a, b) ==
    IF a = <<>> THEN TRUE
    ELSE IF b = <<>> THEN FALSE
    ELSE IF Head(a) = Head(b) THEN IsSubseq(Tail(a), Tail(b))
    ELSE IsSubseq(a, Tail(b))

FilterCommitInTrace ==
    \E i \in 1..Len(trace) : CommitIn(i) /\ trace[i].slot = "filters"
SortCommitInTrace ==
    \E i \in 1..Len(trace) : CommitIn(i) /\ trace[i].slot = "sorts"

(* C12: for every list of filter criteria, with no field definitions and    *)
(* with those of the view, and for every list of sorts, the sanitized list  *)
(* is a subsequence of the list, in the same order, and sanitizing it again *)
(* gives the same list; so it is for the lists a commit publishes.          *)
C12_SanitizersIdempotentOrdered ==
    /\ \A fields \in {<<>>, filterOptions} :
           LET out == sanitizeFilters(filters, fields)
           IN  sanitizeFilters(out, fields) = out /\ IsSubseq(out, filters)
    /\ LET out == sanitizeSorts(sorts)
       IN  sanitizeSorts(out) = out /\ IsSubseq(out, sorts)
    /\ FilterCommitInTrace =>
           /\ sanitizeFilters(sanitizedFilters, useFilterSortingFields) = sanitizedFilters
           /\ IsSubseq(sanitizedFilters, filters)
    /\ SortCommitInTrace =>
           /\ sanitizeSorts(sanitizedSorts) = sanitizedSorts
           /\ IsSubseq(sanitizedSorts, sorts)

(* three criteria were committed as two, the valid ones, in their order *)
C12_Witness ==
    /\ FilterCommitInTrace
    /\ filters = <<CreatedByU1, AfterBlank, Before2024>>
    /\ sanitizedFilters = <<CreatedByU1, Before2024>>

(* a criterion is malformed: its value is empty, undefined or null, its     *)
(* array value has no element, or its operator is not among the operators   *)
(* of the FilterField of the view with its field key                        *)
Malformed(c) ==
    \/ c.value = Undefined
    \/ c.value = Null
    \/ c.value = Str("")
    \/ c.value = Arr(<<>>)
    \/ \E i \in 1..Len(filterOptions) :
           /\ filterOptions[i].field = c.field
           /\ c.operator \notin Range(filterOptions[i].operators)

WellFormed(c) == ~Malformed(c)

(* C13: the filters a commit publishes are the live criteria without the    *)
(* malformed ones, every other criterion kept, in the same order.           *)
C13_DropsExactlyMalformed ==
    FilterCommitInTrace => sanitizedFilters = SelectSeq(filters, WellFormed)

-----------------------------------------------------------------------------
(* Properties of the requests *)

FetchesCarryCommitted ==
    /\ \A i \in 1..Len(trace) :
           MainFetchIn(i) =>
               /\ trace[i].params.filters = sanitizedFilters
               /\ trace[i].params.sort = sanitizedSorts
    /\ \A r \in inflight :
           r.kind = "main" /\ r.key = CurrentMainKey =>
               /\ r.params.filters = sanitizedFilters
               /\ r.params.sort = sanitizedSorts

EditsSendNothing ==
    (filters' # filters \/ sorts' # sorts \/ callsF' > callsF \/ callsS' > callsS) =>
        /\ inflight' = inflight
        /\ \A i \in 1..Len(trace') : trace'[i].ev # "fetch"
        /\ UNCHANGED <<sanitizedFilters, sanitizedSorts>>

(* C14: every main request carries the committed filters and sorts of the  *)
(* task that sends it, also while the live criteria differ from them; a     *)
(* setFilters or setSorts call sends no request and leaves the committed    *)
(* criteria as they are.                                                    *)
C14_FetchesCarryCommitted == []FetchesCarryCommitted /\ [][EditsSendNothing]_vars

(* a page change inside the debounce window of an edit *)
C14_Witness ==
    /\ \E i \in 1..Len(trace) : MainFetchIn(i)
    /\ timersF # {} /\ callsF >= 1
    /\ sanitizeFilters(filters, useFilterSortingFields) # sanitizedFilters

(* C15: every probe request has limit 1, offset 0, no filters and no sort,  *)
(* whatever the page and the committed criteria are.                        *)
C15_ProbeIgnoresCriteria ==
    /\ \A i \in 1..Len(trace) :
           trace[i].ev = "fetch" /\ trace[i].kind = "probe" =>
               /\ trace[i].params.limit = 1
               /\ trace[i].params.offset = 0
               /\ trace[i].params.filters = <<>>
               /\ trace[i].params.sort = <<>>
    /\ \A r \in inflight :
           r.kind = "probe" =>
               /\ r.params.limit = 1
               /\ r.params.offset = 0
               /\ r.params.filters = <<>>
               /\ r.params.sort = <<>>

(* a probe sent from page 2 under committed filters and a changed sort *)
C15_Witness ==
    /\ ProbeFetchInTrace
    /\ page = 2
    /\ sanitizedFilters = <<Before2024>>
    /\ sanitizedSorts = <<CreatedAtAsc>>

-----------------------------------------------------------------------------
(* Properties of the responses *)

(* the request r was sent for the page and the committed criteria of now *)
SentForCurrent(r) ==
    IF r.kind = "main"
    THEN /\ r.key = CurrentMainKey
         /\ r.params.offset = (page - 1) * r.params.limit
         /\ r.params.filters = sanitizedFilters
         /\ r.params.sort = sanitizedSorts
    ELSE r.key = CurrentProbeKey

StaleResponsesDiscarded ==
    \A r \in inflight \ inflight' :
        ~SentForCurrent(r) =>
            /\ UNCHANGED <<mainQuery, probeQuery, page, sanitizedFilters, sanitizedSorts>>
            /\ State' = State
            /\ Render' = Render

(* C16: when the response of a request arrives, it changes the main or the  *)
(* probe result, and with them the state and what is rendered, only if the  *)
(* request was sent for the current page and the current committed filters  *)
(* and sorts; the response of a superseded request changes nothing,         *)
(* whether it arrives before or after the response of the current one.      *)
C16_StaleResponsesIgnored == [][StaleResponsesDiscarded]_vars

(* the response for page 2 arrives after the one for page 1 was applied *)
C16_Witness ==
    /\ \E i \in 1..Len(trace) : trace[i].ev = "discard" /\ trace[i].kind = "main"
    /\ mainQuery.status = "success"
    /\ page = 1
    /\ sanitizedFilters = <<Before2024>>

-----------------------------------------------------------------------------
(* Properties of the commit timers *)

CommitsOf(slot) == {i \in 1..Len(trace) : CommitIn(i) /\ trace[i].slot = slot}

(* C17: at most one commit timer is pending for the filters slot and at     *)
(* most one for the sorts slot; the pending timer of a slot is the one its  *)
(* last call started, due 500 ms after that call, so a timer that a later   *)
(* call superseded is gone; a task commits a slot at most once, and only    *)
(* 500 ms after the last call to the slot.                                  *)
C17_OneTimerPerSlot ==
    /\ Cardinality(timersF) <= 1
    /\ Cardinality(timersS) <= 1
    /\ \A t \in timersF : t + quietF = 500
    /\ \A t \in timersS : t + quietS = 500
    /\ Cardinality(CommitsOf("filters")) <= 1
    /\ Cardinality(CommitsOf("sorts")) <= 1
    /\ \A i \in CommitsOf("filters") : quietF >= 500 /\ timersF = {}
    /\ \A i \in CommitsOf("sorts") : quietS >= 500 /\ timersS = {}

(* a setFilters call has superseded the timer of the call before it, while *)
(* a timer of the sorts slot is pending                                    *)
C17_Witness ==
    /\ callsF = 2 /\ timersF = {500}
    /\ callsS = 1 /\ timersS = {250}

-----------------------------------------------------------------------------
(* Properties of the query cycle *)

ChangeReturnsToLoading ==
    /\ (page' # page \/ sanitizedFilters' # sanitizedFilters
           \/ sanitizedSorts' # sanitizedSorts) =>
           State' = "Loading"
    /\ (State = "Loading" /\ State' # "Loading") =>
           \E r \in inflight \ inflight' : SentForCurrent(r)

(* C18: the state is Loading after the mount and the loader is returned as  *)
(* long as it is; a step that changes the page, the committed filters or    *)
(* the committed sorts leaves the state Loading, whatever it was; and the   *)
(* state leaves Loading only by the response of a request that was sent for *)
(* the current page and criteria.                                           *)
C18_LoadingBetweenCycles ==
    /\ State = "Loading"
    /\ [](State = "Loading" => Render = "Loader")
    /\ [][ChangeReturnsToLoading]_vars

(* the list was shown, the page was changed: the state is Loading again *)
C18_Witness ==
    /\ State = "Loading"
    /\ page = 2
    /\ \E i \in 1..Len(trace) : MainFetchIn(i)
    /\ \A i \in 1..Len(trace) : ~CommitIn(i)
    /\ probesIssued = 0 /\ edits = 1

(* C19: a commit whose sanitized value is structurally equal to the         *)
(* committed value before it leaves the page as it is and sends no main     *)
(* request: no reset() moves the page in its task.                          *)
C19_EqualCommitKeepsPage ==
    \A i \in 1..Len(trace) :
        CommitIn(i) /\ ~trace[i].changed =>
            \A j \in 1..Len(trace) : ~MainFetchIn(j)

-----------------------------------------------------------------------------
(* Properties of the teardown *)

TornDown ==
    ~mounted =>
        /\ timersF = {} /\ timersS = {}
        /\ \A i \in 1..Len(trace) : trace[i].ev = "discard"

NothingAfterTeardown ==
    ~mounted =>
        UNCHANGED <<mounted, users, filters, sorts, sanitizedFilters, sanitizedSorts,
                    timersF, timersS, page, mainQuery, probeQuery, callsF, callsS>>

(* C20: once the view is torn down no commit timer is pending, so none      *)
(* fires; no step commits, calls reset() or sends a request; and no step,   *)
(* the arrival of the response of a request in flight included, changes the *)
(* live or committed criteria, the page, the main or the probe result.      *)
C20_NothingAfterTeardown == []TornDown /\ [][NothingAfterTeardown]_vars

(* torn down with an uncommitted edit; the response of the request that was *)
(* in flight has arrived and was discarded                                  *)
C20_Witness ==
    /\ ~mounted
    /\ callsF >= 1
    /\ mainQuery.status = "pending"
    /\ inflight = {}
    /\ \E i \in 1..Len(trace) : trace[i].ev = "discard" /\ trace[i].kind = "main"

-----------------------------------------------------------------------------
(* Progress *)

Committed(slot) ==
    IF slot = "filters"
    THEN callsF = 0 /\ timersF = {} /\ sanitizedFilters = LiveSanitized("filters")
    ELSE callsS = 0 /\ timersS = {} /\ sanitizedSorts = LiveSanitized("sorts")

ResolvedStates == {"Error", "TrueEmpty", "FilteredEmpty", "Populated"}

(* C21: when time passes, due timers fire and every request is answered,    *)
(* each setFilters (setSorts) call is followed, once the calls to its slot  *)
(* have ended, by a state in which no call is uncommitted, no timer of the  *)
(* slot is pending and the committed value is the sanitized live value;     *)
(* and the state Loading is followed by one of Error, TrueEmpty,            *)
(* FilteredEmpty, Populated.  As long as the request of the current key is  *)
(* not answered the state is Loading.                                       *)
C21_CommitsAndResolves ==
    /\ (callsF >= 1) ~> Committed("filters")
    /\ (callsS >= 1) ~> Committed("sorts")
    /\ (State = "Loading") ~> (State \in ResolvedStates)
    /\ [](InFlight(inflight, "main", CurrentMainKey) => State = "Loading")

(* an edit was committed and the list of the new criteria is shown *)
C21_Witness ==
    /\ edits = 1
    /\ filters = <<Before2024, AfterBlank>>
    /\ Committed("filters") /\ sanitizedFilters = <<Before2024>>
    /\ State = "Populated" /\ inflight = {}

-----------------------------------------------------------------------------
(* The other components are checked one at a time, on a page that does not  *)
(* render the wallet transaction view.                                       *)

ViewNotRendered ==
    /\ mounted = FALSE
    /\ users = "loading"
    /\ filters = <<>> /\ sorts = <<>>
    /\ sanitizedFilters = <<>> /\ sanitizedSorts = <<>>
    /\ timersF = {} /\ timersS = {}
    /\ page = 1
    /\ mainQuery = Idle /\ probeQuery = Idle
    /\ inflight = {}
    /\ trace = <<>>
    /\ quietF = DebounceWindow /\ quietS = DebounceWindow
    /\ callsF = 0 /\ callsS = 0
    /\ edits = 0
    /\ probesIssued = 0
    /\ firstFetch = Null

-----------------------------------------------------------------------------
(* FeatureAlertDialog                                                        *)
(* (src/src/components/molecules/FeatureAlertDialog/FeatureAlertDialog.tsx)  *)
(*                                                                           *)
(* A text is the sequence of its characters.  A number is the record        *)
(* [kind, val]: a value ("num"), NaN ("nan") or, where the code says so,    *)
(* null.                                                                     *)

Num(v) == [kind |-> "num", val |-> v]
NaN == [kind |-> "nan", val |-> 0]
NullNumber == [kind |-> "null", val |-> 0]

Digits == <<"0", "1", "2", "3", "4", "5", "6", "7", "8", "9">>

DigitValue(ch) == (CHOOSE i \in 1..Len(Digits) : Digits[i] = ch) - 1

RECURSIVE LeadingDigits(_)
LeadingDigits(text) ==
    IF text = <<>> \/ Head(text) \notin Range(Digits) THEN 0
    ELSE 1 + LeadingDigits(Tail(text))

RECURSIVE DigitsValue(_)
DigitsValue(text) ==
    IF text = <<>> THEN 0
    ELSE 10 * DigitsValue(SubSeq(text, 1, Len(text) - 1)) + DigitValue(text[Len(text)])

(* parseFloat of a text without a fraction and without an exponent: an      *)
(* optional sign and the longest prefix of digits, NaN if there is no digit *)
parseFloat(text) ==
    LET signed == text # <<>> /\ Head(text) \in {"-", "+"}
        rest == IF signed THEN Tail(text) ELSE text
        n == LeadingDigits(rest)
        v == DigitsValue(SubSeq(rest, 1, n))
    IN  IF n = 0 THEN NaN
        ELSE IF signed /\ Head(text) = "-" THEN Num(0 - v) ELSE Num(v)

(* the comparisons of two numbers: false when one of them is NaN *)
Less(a, b) == a.kind = "num" /\ b.kind = "num" /\ a.val < b.val
LessOrEqual(a, b) == a.kind = "num" /\ b.kind = "num" /\ a.val <= b.val
GreaterOrEqual(a, b) == a.kind = "num" /\ b.kind = "num" /\ a.val >= b.val

Levels == {"critical", "warning", "info"}
Conditions == {"below", "above"}

Threshold(text, condition) == [threshold |-> text, condition |-> condition]

AlertSettings(enabled, critical, warning, info) ==
    [alert_enabled |-> enabled, critical |-> critical, warning |-> warning,
     info |-> info]

(* useState, lines 14-19 *)
NoAlertSettings == AlertSettings(FALSE, Undefined, Undefined, Undefined)

(* the effect of lines 22-38 and the reset of handleClose *)
SyncWithProps(settings) ==
    IF settings # Undefined
    THEN AlertSettings(settings.alert_enabled \/ FALSE, settings.critical,
                       settings.warning, settings.info)
    ELSE NoAlertSettings

ToastError(message) == [call |-> "toast.error", arg |-> message]
OnSave(settings) == [call |-> "onSave", arg |-> settings]
OnClose == [call |-> "onClose", arg |-> Undefined]

validateThresholdAllowsNegative(threshold) ==
    IF threshold # Undefined THEN threshold.threshold # <<>> ELSE TRUE

validateThreshold(threshold) ==
    IF threshold # Undefined
    THEN ~(threshold.threshold = <<>> \/ Less(parseFloat(threshold.threshold), Num(0)))
    ELSE TRUE

(* lines 66-68 and 86-88 *)
ValueOrNull(threshold) ==
    IF threshold # Undefined THEN parseFloat(threshold.threshold) ELSE NullNumber

(* the conditional operator ?. of lines 65 and 85 *)
ConditionOf(threshold) ==
    IF threshold # Undefined THEN threshold.condition ELSE "undefined"

(* lines 70-81: the message of the first ordering check that fails, or "" *)
BelowOrderingError(settings) ==
    LET criticalVal == ValueOrNull(settings.critical)
        warningVal == ValueOrNull(settings.warning)
        infoVal == ValueOrNull(settings.info)
    IN  IF criticalVal # NullNumber /\ warningVal # NullNumber
           /\ GreaterOrEqual(criticalVal, warningVal)
        THEN "warning threshold must be greater than critical threshold"
        ELSE IF warningVal # NullNumber /\ infoVal # NullNumber
                /\ GreaterOrEqual(warningVal, infoVal)
        THEN "info threshold must be greater than warning threshold"
        ELSE IF criticalVal # NullNumber /\ infoVal # NullNumber
                /\ GreaterOrEqual(criticalVal, infoVal)
        THEN "info threshold must be greater than critical threshold"
        ELSE ""

(* lines 90-101 *)
AboveOrderingError(settings) ==
    LET criticalVal == ValueOrNull(settings.critical)
        warningVal == ValueOrNull(settings.warning)
        infoVal == ValueOrNull(settings.info)
    IN  IF criticalVal # NullNumber /\ warningVal # NullNumber
           /\ LessOrEqual(criticalVal, warningVal)
        THEN "critical threshold must be greater than warning threshold"
        ELSE IF warningVal # NullNumber /\ infoVal # NullNumber
                /\ LessOrEqual(warningVal, infoVal)
        THEN "warning threshold must be greater than info threshold"
        ELSE IF criticalVal # NullNumber /\ infoVal # NullNumber
                /\ LessOrEqual(criticalVal, infoVal)
        THEN "critical threshold must be greater than info threshold"
        ELSE ""

(* handleSave, lines 40-106: the calls it makes *)
handleSave(settings) ==
    IF ~settings.alert_enabled THEN <<OnSave(settings)>>
    ELSE IF settings.critical = Undefined /\ settings.warning = Undefined
            /\ settings.info = Undefined
    THEN <<ToastError("Please configure at least one threshold level")>>
    ELSE IF ~validateThreshold(settings.critical)
    THEN <<ToastError("Please enter a valid critical threshold value")>>
    ELSE IF ~validateThreshold(settings.warning)
    THEN <<ToastError("Please enter a valid warning threshold value")>>
    ELSE IF ~validateThreshold(settings.info)
    THEN <<ToastError("Please enter a valid info threshold value")>>
    ELSE IF ConditionOf(settings.critical) = "below"
            /\ BelowOrderingError(settings) # ""
    THEN <<ToastError(BelowOrderingError(settings))>>
    ELSE IF ConditionOf(settings.critical) = "above"
            /\ AboveOrderingError(settings) # ""
    THEN <<ToastError(AboveOrderingError(settings))>>
    ELSE <<OnSave(settings)>>

(* handleThresholdChange, lines 121-144 *)
handleThresholdChangeOwnLevel(prev, level, field, value) ==
    LET currentThreshold == IF prev[level] # Undefined THEN prev[level]
                            ELSE Threshold(<<"0">>, "below")
    IN  [prev EXCEPT ![level] = [currentThreshold EXCEPT ![field] = value]]

handleThresholdChange(prev, level, field, value) ==
    LET currentThreshold == IF prev[level] # Undefined THEN prev[level]
                            ELSE Threshold(<<"0">>, "below")
        Synced(threshold) == IF threshold # Undefined
                             THEN [threshold EXCEPT !.condition = value]
                             ELSE Undefined
    IN  IF field = "condition"
        THEN [prev EXCEPT !.critical = Synced(prev.critical),
                          !.warning = Synced(prev.warning),
                          !.info = Synced(prev.info)]
        ELSE [prev EXCEPT ![level] = [currentThreshold EXCEPT ![field] = value]]

(* handleRemoveThreshold, lines 146-151 *)
handleRemoveThreshold(prev, level) == [prev EXCEPT ![level] = Undefined]

(* handleAddThreshold, lines 153-163 *)
handleAddThreshold(prev, level) ==
    LET defaultCondition ==
            IF prev.critical # Undefined THEN prev.critical.condition
            ELSE IF prev.warning # Undefined THEN prev.warning.condition
            ELSE IF prev.info # Undefined THEN prev.info.condition
            ELSE "below"
    IN  [prev EXCEPT ![level] = Threshold(<<"0">>, defaultCondition)]

(* what the user can type into a threshold input *)
ThresholdTexts == { <<>>, <<"0">>, <<"5">>, <<"1", "0">>, <<"-", "1">> }

(* the alert settings the page passes to the dialog *)
AlertSettingsInputs ==
    { Undefined,
      AlertSettings(FALSE, Undefined, Undefined, Undefined),
      AlertSettings(TRUE, Threshold(<<"5">>, "below"), Undefined,
                    Threshold(<<"1", "0">>, "below")),
      AlertSettings(TRUE, Undefined, Threshold(<<"5">>, "above"),
                    Threshold(<<"1", "0">>, "below")) }

(* The threshold inputs are rendered while the dialog is open and the alerts *)
(* are enabled (lines 236-249): Remove, the value and the condition for a    *)
(* level that is defined, Add for one that is not (lines 175-211).           *)
LevelShown(level) ==
    open /\ localAlertSettings.alert_enabled /\ localAlertSettings[level] # Undefined

AddShown(level) ==
    open /\ localAlertSettings.alert_enabled /\ localAlertSettings[level] = Undefined

Save ==
    /\ open
    /\ alertTrace' = handleSave(localAlertSettings)
    /\ UNCHANGED <<open, alertSettings, localAlertSettings>>
    /\ UNCHANGED <<vars, forceRunVars, quickBooksVars>>

(* handleClose, lines 108-119: Cancel, or the dialog is dismissed *)
Close ==
    /\ open
    /\ localAlertSettings' = IF alertSettings # Undefined
                             THEN SyncWithProps(alertSettings)
                             ELSE localAlertSettings
    /\ alertTrace' = <<OnClose>>
    /\ UNCHANGED <<open, alertSettings>>
    /\ UNCHANGED <<vars, forceRunVars, quickBooksVars>>

(* the toggle of lines 227-233 *)
ToggleAlerts(enabled) ==
    /\ open
    /\ localAlertSettings' = [localAlertSettings EXCEPT !.alert_enabled = enabled]
    /\ alertTrace' = <<>>
    /\ UNCHANGED <<open, alertSettings>>
    /\ UNCHANGED <<vars, forceRunVars, quickBooksVars>>

ChangeThreshold(level, field, value) ==
    /\ LevelShown(level)
    /\ localAlertSettings' = handleThresholdChange(localAlertSettings, level, field, value)
    /\ alertTrace' = <<>>
    /\ UNCHANGED <<open, alertSettings>>
    /\ UNCHANGED <<vars, forceRunVars, quickBooksVars>>

RemoveThreshold(level) ==
    /\ LevelShown(level)
    /\ localAlertSettings' = handleRemoveThreshold(localAlertSettings, level)
    /\ alertTrace' = <<>>
    /\ UNCHANGED <<open, alertSettings>>
    /\ UNCHANGED <<vars, forceRunVars, quickBooksVars>>

AddThreshold(level) ==
    /\ AddShown(level)
    /\ localAlertSettings' = handleAddThreshold(localAlertSettings, level)
    /\ alertTrace' = <<>>
    /\ UNCHANGED <<open, alertSettings>>
    /\ UNCHANGED <<vars, forceRunVars, quickBooksVars>>

(* the page renders the dialog with other props: the effect of lines 22-38  *)
(* runs again                                                                *)
PropsChange(settings, isShown) ==
    /\ <<settings, isShown>> # <<alertSettings, open>>
    /\ alertSettings' = settings
    /\ open' = isShown
    /\ localAlertSettings' = SyncWithProps(settings)
    /\ alertTrace' = <<>>
    /\ UNCHANGED <<vars, forceRunVars, quickBooksVars>>

(* the dialog after its first render and the effect of lines 22-38 *)
InitAlertDialog ==
    /\ ViewNotRendered
    /\ open \in BOOLEAN
    /\ alertSettings \in AlertSettingsInputs
    /\ localAlertSettings = SyncWithProps(alertSettings)
    /\ alertTrace = <<>>
    /\ isOpen = Null /\ exportLoading = Null /\ runType = Null
    /\ startDateTime = Null /\ endDateTime = Null /\ errors = Null
    /\ runTrace = Null
    /\ sheetOpen = Null /\ connection = Null /\ formData = Null
    /\ formErrors = Null /\ mutation = Null /\ qbTrace = Null

NextAlertDialog ==
    \/ Save
    \/ Close
    \/ \E enabled \in BOOLEAN : ToggleAlerts(enabled)
    \/ \E level \in Levels, text \in ThresholdTexts :
           ChangeThreshold(level, "threshold", text)
    \/ \E level \in Levels, condition \in Conditions :
           ChangeThreshold(level, "condition", condition)
    \/ \E level \in Levels : RemoveThreshold(level)
    \/ \E level \in Levels : AddThreshold(level)
    \/ \E settings \in AlertSettingsInputs, isShown \in BOOLEAN :
           PropsChange(settings, isShown)

SpecAlertDialog == InitAlertDialog /\ [][NextAlertDialog]_alertVars

(* all defined thresholds of the settings have one condition *)
SharedCondition(settings) ==
    \A a, b \in Levels :
        settings[a] # Undefined /\ settings[b] # Undefined
            => settings[a].condition = settings[b].condition

Severity == [critical |-> 1, warning |-> 2, info |-> 3]

(* the defined thresholds are strictly ordered pairwise: the more severe   *)
(* level has the smaller value for "below", the greater value for "above"  *)
StrictlyOrdered(settings) ==
    \A a, b \in Levels :
        settings[a] # Undefined /\ settings[b] # Undefined
        /\ Severity[a] < Severity[b]
            => IF settings[a].condition = "below"
               THEN Less(parseFloat(settings[a].threshold),
                         parseFloat(settings[b].threshold))
               ELSE Less(parseFloat(settings[b].threshold),
                         parseFloat(settings[a].threshold))

SavedSettings == {alertTrace[i].arg : i \in {j \in 1..Len(alertTrace) :
                                                alertTrace[j].call = "onSave"}}

(* C22: whenever handleSave calls onSave with alerts enabled, the defined  *)
(* thresholds (which have one condition) are strictly ordered pairwise:    *)
(* critical < warning < info for "below", critical > warning > info for    *)
(* "above", whichever levels are defined.                                  *)
C22_SavedThresholdsOrdered ==
    \A settings \in SavedSettings :
        settings.alert_enabled /\ SharedCondition(settings)
            => StrictlyOrdered(settings)

DefinedLevels(settings) == {level \in Levels : settings[level] # Undefined}

(* a step of handleAddThreshold, handleRemoveThreshold or                  *)
(* handleThresholdChange                                                    *)
ThresholdEdit ==
    \/ \E level \in Levels : AddThreshold(level) \/ RemoveThreshold(level)
    \/ \E level \in Levels, text \in ThresholdTexts :
           ChangeThreshold(level, "threshold", text)
    \/ \E level \in Levels, condition \in Conditions :
           ChangeThreshold(level, "condition", condition)

(* C23: a step of handleAddThreshold, handleRemoveThreshold or             *)
(* handleThresholdChange taken from settings whose defined thresholds have *)
(* one condition leads to settings whose defined thresholds have one       *)
(* condition; and a change of the condition on one level leaves the same   *)
(* levels defined, all of them with the new condition.                     *)
C23_ConditionStaysShared ==
    [][/\ ThresholdEdit /\ SharedCondition(localAlertSettings)
            => SharedCondition(localAlertSettings')
       /\ \A level \in Levels, condition \in Conditions :
            ChangeThreshold(level, "condition", condition)
                => /\ DefinedLevels(localAlertSettings')
                        = DefinedLevels(localAlertSettings)
                   /\ \A l \in DefinedLevels(localAlertSettings') :
                        localAlertSettings'[l].condition = condition]_alertVars

(* the props hold two thresholds with "below"; a third was added and the   *)
(* condition was changed: all three have "above"                           *)
C23_Witness ==
    /\ alertSettings = AlertSettings(TRUE, Threshold(<<"5">>, "below"), Undefined,
                                     Threshold(<<"1", "0">>, "below"))
    /\ DefinedLevels(localAlertSettings) = Levels
    /\ \A l \in Levels : localAlertSettings[l].condition = "above"

(* the value of a threshold is not empty and not negative *)
ValidValue(threshold) ==
    /\ threshold.threshold # <<>>
    /\ ~Less(parseFloat(threshold.threshold), Num(0))

ToastIn(calls) == \E i \in 1..Len(calls) : calls[i].call = "toast.error"

(* C24: onSave is called with the local settings; with alerts enabled only *)
(* if a level is defined and every defined threshold has a value that is   *)
(* not empty and not negative; handleSave either reports one error or      *)
(* calls onSave once, and reports no error when the alerts are disabled;   *)
(* it leaves the local settings unchanged.                                 *)
C24_SaveValidates ==
    /\ [](/\ \A settings \in SavedSettings :
                /\ settings = localAlertSettings
                /\ settings.alert_enabled
                    => /\ DefinedLevels(settings) # {}
                       /\ \A l \in DefinedLevels(settings) : ValidValue(settings[l])
          /\ ToastIn(alertTrace) => SavedSettings = {} /\ localAlertSettings.alert_enabled
          /\ Len(alertTrace) <= 1)
    /\ [][Save => /\ localAlertSettings' = localAlertSettings
                  /\ Len(alertTrace') = 1
                  /\ ~localAlertSettings.alert_enabled
                        => alertTrace' = <<OnSave(localAlertSettings)>>]_alertVars

(* enabled alerts with two valid thresholds were saved *)
C24_Witness ==
    /\ alertTrace = <<OnSave(localAlertSettings)>>
    /\ localAlertSettings.alert_enabled
    /\ DefinedLevels(localAlertSettings) = {"warning", "info"}

-----------------------------------------------------------------------------
(* ForceRunDrawer (src/unnamed/part_003)                                     *)
(*                                                                           *)
(* A date is the text YYYY-MM-DD and a time the text HH:MM of a date or     *)
(* time input, or the empty text.  An instant is a number of minutes; the   *)
(* time zone of the browser is taken to have a fixed offset.                *)

DateTimeFields(date, time) == [date |-> date, time |-> time]

(* useState, lines 124-127 *)
NoDateTime == DateTimeFields(<<>>, <<>>)
NoErrors == [startDate |-> "", startTime |-> "", endDate |-> "", endTime |-> ""]

IsLeapYear(y) == (y % 4 = 0 /\ y % 100 # 0) \/ y % 400 = 0

DaysInMonth(y) ==
    <<31, IF IsLeapYear(y) THEN 29 ELSE 28, 31, 30, 31, 30, 31, 31, 30, 31, 30, 31>>

RECURSIVE DaysBeforeMonth(_, _)
DaysBeforeMonth(y, mo) ==
    IF mo <= 1 THEN 0 ELSE DaysBeforeMonth(y, mo - 1) + DaysInMonth(y)[mo - 1]

DaysBeforeYear(y) == 365 * y + ((y - 1) \div 4) - ((y - 1) \div 100) + ((y - 1) \div 400)

(* new Date(`${date}T${time}`) of lines 146-147 and 158: the instant of    *)
(* the text YYYY-MM-DDTHH:MM                                                *)
NewDate(text) ==
    LET y == DigitsValue(SubSeq(text, 1, 4))
        mo == DigitsValue(SubSeq(text, 6, 7))
        d == DigitsValue(SubSeq(text, 9, 10))
        h == DigitsValue(SubSeq(text, 12, 13))
        mi == DigitsValue(SubSeq(text, 15, 16))
    IN  ((DaysBeforeYear(y) + DaysBeforeMonth(y, mo) + d - 1) * 24 + h) * 60 + mi

DateOf(dateTime) == NewDate(dateTime.date \o <<"T">> \o dateTime.time)

(* validateDateTimeRange, lines 129-155 *)
validateDateTimeRangeAllowsEqual(start, end) ==
    LET complete == start.date # <<>> /\ start.time # <<>>
                    /\ end.date # <<>> /\ end.time # <<>>
    IN  [startDate |-> IF start.date = <<>> THEN "Start date is required" ELSE "",
         startTime |-> IF start.time = <<>> THEN "Start time is required" ELSE "",
         endDate |-> IF end.date = <<>> THEN "End date is required" ELSE "",
         endTime |-> IF complete /\ DateOf(start) > DateOf(end)
                     THEN "End time must be after start time"
                     ELSE IF end.time = <<>> THEN "End time is required" ELSE ""]

validateDateTimeRange(start, end) ==
    LET complete == start.date # <<>> /\ start.time # <<>>
                    /\ end.date # <<>> /\ end.time # <<>>
    IN  [startDate |-> IF start.date = <<>> THEN "Start date is required" ELSE "",
         startTime |-> IF start.time = <<>> THEN "Start time is required" ELSE "",
         endDate |-> IF end.date = <<>> THEN "End date is required" ELSE "",
         endTime |-> IF complete /\ DateOf(start) >= DateOf(end)
                     THEN "End time must be after start time"
                     ELSE IF end.time = <<>> THEN "End time is required" ELSE ""]

(* convertToISO, lines 157-159: the ISO text is represented by the instant *)
(* it denotes                                                               *)
convertToISO(dateTime) == [instant |-> DateOf(dateTime)]

OnConfirm(args) == [call |-> "onConfirm", args |-> args]
OnOpenChange(isShown) == [call |-> "onOpenChange", args |-> <<isShown>>]

(* handleClose, lines 161-167 *)
handleClose ==
    /\ runType' = "current"
    /\ startDateTime' = NoDateTime
    /\ endDateTime' = NoDateTime
    /\ errors' = NoErrors

(* what the date and the time inputs can hold *)
DateInputs == { <<>>, <<"2", "0", "2", "4", "-", "0", "2", "-", "2", "9">>,
                <<"2", "0", "2", "4", "-", "0", "3", "-", "0", "1">> }

TimeInputs == { <<>>, <<"0", "9", ":", "3", "0">>, <<"1", "0", ":", "0", "0">> }

(* Cancel (line 313, disabled while loading) *)
Cancel ==
    /\ isOpen /\ ~exportLoading
    /\ handleClose
    /\ runTrace' = <<OnOpenChange(FALSE)>>
    /\ UNCHANGED <<isOpen, exportLoading>>
    /\ UNCHANGED <<vars, alertVars, quickBooksVars>>

(* the modal is dismissed (line 228) *)
Dismiss ==
    /\ isOpen
    /\ handleClose
    /\ runTrace' = <<OnOpenChange(FALSE)>>
    /\ UNCHANGED <<isOpen, exportLoading>>
    /\ UNCHANGED <<vars, alertVars, quickBooksVars>>

(* handleConfirm, lines 169-185 *)
Confirm ==
    /\ isOpen
    /\ IF runType = "current"
       THEN /\ handleClose
            /\ runTrace' = <<OnConfirm(<<>>), OnOpenChange(FALSE)>>
       ELSE LET validationErrors == validateDateTimeRange(startDateTime, endDateTime)
            IN  IF validationErrors = NoErrors
                THEN /\ handleClose
                     /\ runTrace' = <<OnConfirm(<<convertToISO(startDateTime),
                                                  convertToISO(endDateTime)>>),
                                      OnOpenChange(FALSE)>>
                ELSE /\ errors' = validationErrors
                     /\ runTrace' = <<>>
                     /\ UNCHANGED <<runType, startDateTime, endDateTime>>
    /\ UNCHANGED <<isOpen, exportLoading>>
    /\ UNCHANGED <<vars, alertVars, quickBooksVars>>

(* the radio group, line 265 *)
SetRunType(value) ==
    /\ isOpen
    /\ runType' = value
    /\ runTrace' = <<>>
    /\ UNCHANGED <<isOpen, exportLoading, startDateTime, endDateTime, errors>>
    /\ UNCHANGED <<vars, alertVars, quickBooksVars>>

(* handleStartDateChange ... handleEndTimeChange, lines 187-225, with the  *)
(* onClearError of lines 48-54: the inputs are rendered in custom mode     *)
ChangeDateTime(field, value) ==
    /\ isOpen /\ runType = "custom"
    /\ startDateTime' =
           IF field = "startDate" THEN [startDateTime EXCEPT !.date = value]
           ELSE IF field = "startTime" THEN [startDateTime EXCEPT !.time = value]
           ELSE startDateTime
    /\ endDateTime' =
           IF field = "endDate" THEN [endDateTime EXCEPT !.date = value]
           ELSE IF field = "endTime" THEN [endDateTime EXCEPT !.time = value]
           ELSE endDateTime
    /\ errors' = [errors EXCEPT ![field] = ""]
    /\ runTrace' = <<>>
    /\ UNCHANGED <<isOpen, exportLoading, runType>>
    /\ UNCHANGED <<vars, alertVars, quickBooksVars>>

(* the page renders the drawer with other props *)
ForceRunPropsChange(isShown, loading) ==
    /\ <<isShown, loading>> # <<isOpen, exportLoading>>
    /\ isOpen' = isShown
    /\ exportLoading' = loading
    /\ runTrace' = <<>>
    /\ UNCHANGED <<runType, startDateTime, endDateTime, errors>>
    /\ UNCHANGED <<vars, alertVars, quickBooksVars>>

InitForceRunDrawer ==
    /\ ViewNotRendered
    /\ open = Null /\ alertSettings = Null /\ localAlertSettings = Null
    /\ alertTrace = Null
    /\ isOpen \in BOOLEAN
    /\ exportLoading = FALSE
    /\ runType = "current"
    /\ startDateTime = NoDateTime
    /\ endDateTime = NoDateTime
    /\ errors = NoErrors
    /\ runTrace = <<>>
    /\ sheetOpen = Null /\ connection = Null /\ formData = Null
    /\ formErrors = Null /\ mutation = Null /\ qbTrace = Null

NextForceRunDrawer ==
    \/ Cancel
    \/ Dismiss
    \/ Confirm
    \/ \E value \in {"current", "custom"} : SetRunType(value)
    \/ \E value \in DateInputs : ChangeDateTime("startDate", value)
    \/ \E value \in TimeInputs : ChangeDateTime("startTime", value)
    \/ \E value \in DateInputs : ChangeDateTime("endDate", value)
    \/ \E value \in TimeInputs : ChangeDateTime("endTime", value)
    \/ \E isShown \in BOOLEAN, loading \in BOOLEAN : ForceRunPropsChange(isShown, loading)

SpecForceRunDrawer == InitForceRunDrawer /\ [][NextForceRunDrawer]_forceRunVars

(* the order of two texts of digits and separators, character by character *)
CharRank(ch) == IF ch \in Range(Digits) THEN DigitValue(ch) + 1 ELSE 0

RECURSIVE TextLess(_, _)
TextLess(a, b) ==
    IF b = <<>> THEN FALSE
    ELSE IF a = <<>> THEN TRUE
    ELSE IF Head(a) # Head(b) THEN CharRank(Head(a)) < CharRank(Head(b))
    ELSE TextLess(Tail(a), Tail(b))

AllFieldsSet ==
    /\ startDateTime.date # <<>> /\ startDateTime.time # <<>>
    /\ endDateTime.date # <<>> /\ endDateTime.time # <<>>

(* the start is an earlier day than the end, or an earlier time of its day *)
StartBeforeEnd ==
    \/ TextLess(startDateTime.date, endDateTime.date)
    \/ /\ startDateTime.date = endDateTime.date
       /\ TextLess(startDateTime.time, endDateTime.time)

ClosedAndConfirmed(calls, arity) ==
    /\ Len(calls) = 2
    /\ calls[1].call = "onConfirm" /\ Len(calls[1].args) = arity
    /\ calls[2] = OnOpenChange(FALSE)

(* C25: in custom mode handleConfirm calls onConfirm with a start and an   *)
(* end and closes if and only if the four fields are set and the start is  *)
(* strictly before the end; otherwise it calls nothing and leaves the run  *)
(* type and the fields as they are.  In current mode it calls onConfirm    *)
(* without arguments and closes.  Every step that closes (cancel, dismiss, *)
(* successful confirm) leaves the run type current and the fields and the  *)
(* errors empty.                                                            *)
C25_ConfirmValidatesAndCloseResets ==
    [][/\ Confirm /\ runType = "custom"
            => IF AllFieldsSet /\ StartBeforeEnd
               THEN ClosedAndConfirmed(runTrace', 2)
               ELSE /\ runTrace' = <<>>
                    /\ UNCHANGED <<isOpen, runType, startDateTime, endDateTime>>
       /\ Confirm /\ runType = "current" => ClosedAndConfirmed(runTrace', 0)
       /\ Cancel \/ Dismiss => runTrace' = <<OnOpenChange(FALSE)>>
       /\ OnOpenChange(FALSE) \in Range(runTrace')
            => /\ runType' = "current"
               /\ startDateTime' = NoDateTime /\ endDateTime' = NoDateTime
               /\ errors' = NoErrors]_forceRunVars

(* a custom range was confirmed: the drawer asked to be closed and is reset *)
C25_Witness ==
    /\ ClosedAndConfirmed(runTrace, 2)
    /\ runTrace[1].args[1].instant < runTrace[1].args[2].instant
    /\ runType = "current" /\ startDateTime = NoDateTime /\ errors = NoErrors

-----------------------------------------------------------------------------
(* QuickBooksConnectionDrawer (src/unnamed/part_001)                         *)
(*                                                                           *)
(* An object is a function from its keys; a key that is missing is not in   *)
(* its domain.  One action is one task: a handler, or the arrival of a      *)
(* response with the code that continues after it.  qbTrace holds the       *)
(* calls and the responses of the last task.                                *)

EmptyObject == [key \in {} |-> Null]

(* object[key] || fallback *)
FieldOr(object, key, fallback) ==
    IF key \in DOMAIN object THEN object[key] ELSE fallback

QUICKBOOKS == "quickbooks"

(* String.prototype.trim for texts with blanks *)
RECURSIVE TrimStart(_)
TrimStart(text) ==
    IF text # <<>> /\ Head(text) = " " THEN TrimStart(Tail(text)) ELSE text

trim(text) == Reverse(TrimStart(Reverse(TrimStart(text))))

CredentialFields == {"client_id", "client_secret", "access_token", "refresh_token",
                     "realm_id"}

(* useState, lines 48-60, and the reset of lines 83-95 *)
EmptyForm ==
    [name |-> <<>>, client_id |-> <<>>, client_secret |-> <<>>,
     access_token |-> <<>>, refresh_token |-> <<>>, realm_id |-> <<>>,
     environment |-> "sandbox", income_account_id |-> <<>>,
     sync_config |-> [invoice |-> FALSE]]

(* the form of lines 66-81 for the connection that is edited *)
FormOf(conn) ==
    LET secretData == FieldOr(conn, "encrypted_secret_data", EmptyObject)
        syncConfig == FieldOr(conn, "sync_config", EmptyObject)
    IN  [name |-> FieldOr(conn, "name", <<>>),
         client_id |-> FieldOr(secretData, "client_id", <<>>),
         client_secret |-> FieldOr(secretData, "client_secret", <<>>),
         access_token |-> FieldOr(secretData, "access_token", <<>>),
         refresh_token |-> FieldOr(secretData, "refresh_token", <<>>),
         realm_id |-> FieldOr(secretData, "realm_id", <<>>),
         environment |-> FieldOr(secretData, "environment", "sandbox"),
         income_account_id |-> FieldOr(secretData, "income_account_id", <<>>),
         sync_config |-> [invoice |-> IF "invoice" \in DOMAIN syncConfig
                                      THEN syncConfig.invoice.outbound
                                      ELSE FALSE]]

(* the effect of lines 64-99 when it runs with the sheet open *)
ResetForm(conn) == IF conn # Undefined THEN FormOf(conn) ELSE EmptyForm

(* validateForm, lines 116-145: the fields that get a message *)
validateFormNameOnly(form, conn) ==
    {field \in {"name"} : trim(form[field]) = <<>>}

validateForm(form, conn) ==
    {field \in {"name"} : trim(form[field]) = <<>>}
    \cup IF conn = Undefined
         THEN {field \in CredentialFields : trim(form[field]) = <<>>}
         ELSE {}

(* lines 160 and 202: formData.income_account_id || undefined *)
IncomeAccountOrUndefined(form) ==
    IF form.income_account_id = <<>> THEN Undefined ELSE form.income_account_id

(* lines 162-174 and 204-213 *)
SyncConfigOf(form) ==
    IF form.sync_config.invoice
    THEN [invoice |-> [inbound |-> FALSE, outbound |-> TRUE]]
    ELSE EmptyObject

(* the payload of createConnection, lines 149-174 *)
CreatePayload(form) ==
    [name |-> form.name,
     provider_type |-> QUICKBOOKS,
     encrypted_secret_data |->
         [provider_type |-> QUICKBOOKS,
          client_id |-> form.client_id,
          client_secret |-> form.client_secret,
          access_token |-> form.access_token,
          refresh_token |-> form.refresh_token,
          realm_id |-> form.realm_id,
          environment |-> form.environment,
          income_account_id |-> IncomeAccountOrUndefined(form)],
     sync_config |-> SyncConfigOf(form)]

(* the payload of updateConnection, lines 195-213 *)
UpdatePayloadFromForm(form, existingConnection) ==
    [name |-> form.name,
     encrypted_secret_data |-> CreatePayload(form).encrypted_secret_data,
     sync_config |-> SyncConfigOf(form)]

UpdatePayload(form, existingConnection) ==
    LET existingSecretData ==
            FieldOr(existingConnection, "encrypted_secret_data", EmptyObject)
    IN  [name |-> form.name,
         encrypted_secret_data |->
             ("income_account_id" :> IncomeAccountOrUndefined(form))
             @@ existingSecretData
             @@ ("provider_type" :> QUICKBOOKS),
         sync_config |-> SyncConfigOf(form)]

ApiCreate(payload) == [call |-> "ConnectionApi.Create", args |-> <<payload>>]
ApiGet(id) == [call |-> "ConnectionApi.Get", args |-> <<id>>]
ApiUpdate(id, payload) == [call |-> "ConnectionApi.Update", args |-> <<id, payload>>]
GetResolved(existingConnection) ==
    [call |-> "ConnectionApi.Get resolved", args |-> <<existingConnection>>]
ToastSuccess(message) == [call |-> "toast.success", args |-> <<message>>]
ToastFailure(message) == [call |-> "toast.error", args |-> <<message>>]
OnSaveConnection(response) == [call |-> "onSave", args |-> <<response>>]

NoMutation == [kind |-> "idle"]
isPending == mutation # NoMutation

(* what the user can type into a text field: nothing, a blank or a letter  *)
(* into the name and the client id, nothing or a letter into the others    *)
FieldTexts(field) ==
    IF field \in {"name", "client_id"} THEN { <<>>, <<" ">>, <<"q">> }
    ELSE { <<>>, <<"q">> }

IncomeAccountTexts == { <<>>, <<"7", "9">> }

StoredSecret ==
    [client_id |-> <<"i", "d">>, client_secret |-> <<"s">>,
     access_token |-> <<"a">>, refresh_token |-> <<"r">>, realm_id |-> <<"4", "2">>,
     environment |-> "production", token_expires_at |-> 1700,
     income_account_id |-> <<"8", "0">>]

(* the connection as the page has it: with its secret data, or without *)
ConnectionInputs ==
    { Undefined,
      [id |-> "conn_1", name |-> <<"q">>,
       sync_config |-> [invoice |-> [inbound |-> TRUE, outbound |-> TRUE]]],
      [id |-> "conn_1", name |-> <<"q">>,
       encrypted_secret_data |-> [realm_id |-> <<"4", "2">>, environment |-> "production"],
       sync_config |-> EmptyObject] }

(* the connection as ConnectionApi.Get returns it *)
ExistingConnections ==
    { [id |-> "conn_1", name |-> <<"q">>, encrypted_secret_data |-> StoredSecret],
      [id |-> "conn_1", name |-> <<"q">>,
       encrypted_secret_data |-> [realm_id |-> <<"4", "2">>, environment |-> "sandbox"]],
      [id |-> "conn_1", name |-> <<"q">>] }

SavedConnection == [id |-> "conn_1"]

(* the fields that are rendered, lines 253-366 *)
FieldShown(field) ==
    field \in {"name", "income_account_id"} \/ connection = Undefined

(* handleChange, lines 101-104 *)
ChangeField(field, value) ==
    /\ sheetOpen /\ FieldShown(field)
    /\ formData' = [formData EXCEPT ![field] = value]
    /\ formErrors' = formErrors \ {field}
    /\ qbTrace' = <<>>
    /\ UNCHANGED <<sheetOpen, connection, mutation>>
    /\ UNCHANGED <<vars, alertVars, forceRunVars>>

(* handleSyncConfigChange, lines 106-114 *)
ToggleInvoice(value) ==
    /\ sheetOpen
    /\ formData' = [formData EXCEPT !.sync_config.invoice = value]
    /\ qbTrace' = <<>>
    /\ UNCHANGED <<sheetOpen, connection, formErrors, mutation>>
    /\ UNCHANGED <<vars, alertVars, forceRunVars>>

(* handleSave, lines 230-238; the button is disabled while a mutation is   *)
(* pending (line 411).  The mutation function runs with the form of the    *)
(* render in which Save was pressed.                                        *)
SaveConnection ==
    /\ sheetOpen /\ ~isPending
    /\ formErrors' = validateForm(formData, connection)
    /\ IF validateForm(formData, connection) # {}
       THEN /\ qbTrace' = <<>>
            /\ UNCHANGED mutation
       ELSE IF connection # Undefined
       THEN /\ mutation' = [kind |-> "update", stage |-> "get", form |-> formData,
                            id |-> connection.id]
            /\ qbTrace' = <<ApiGet(connection.id)>>
       ELSE /\ mutation' = [kind |-> "create"]
            /\ qbTrace' = <<ApiCreate(CreatePayload(formData))>>
    /\ UNCHANGED <<sheetOpen, connection, formData>>
    /\ UNCHANGED <<vars, alertVars, forceRunVars>>

(* Cancel, line 408 *)
CancelSheet ==
    /\ sheetOpen /\ ~isPending
    /\ qbTrace' = <<OnOpenChange(FALSE)>>
    /\ UNCHANGED <<sheetOpen, connection, formData, formErrors, mutation>>
    /\ UNCHANGED <<vars, alertVars, forceRunVars>>

(* the sheet is dismissed, line 245 *)
DismissSheet ==
    /\ sheetOpen
    /\ qbTrace' = <<OnOpenChange(FALSE)>>
    /\ UNCHANGED <<sheetOpen, connection, formData, formErrors, mutation>>
    /\ UNCHANGED <<vars, alertVars, forceRunVars>>

(* ConnectionApi.Create answers: onSuccess, lines 178-182, or onError,     *)
(* lines 183-186                                                            *)
CreateSettles(ok) ==
    /\ mutation.kind = "create"
    /\ mutation' = NoMutation
    /\ qbTrace' = IF ok
                  THEN <<ToastSuccess("QuickBooks connection created successfully"),
                         OnSaveConnection(SavedConnection), OnOpenChange(FALSE)>>
                  ELSE <<ToastFailure("Failed to create connection")>>
    /\ UNCHANGED <<sheetOpen, connection, formData, formErrors>>
    /\ UNCHANGED <<vars, alertVars, forceRunVars>>

(* ConnectionApi.Get answers: lines 195-215 *)
GetResolves(existingConnection) ==
    /\ mutation.kind = "update" /\ mutation.stage = "get"
    /\ mutation' = [mutation EXCEPT !.stage = "update"]
    /\ qbTrace' = <<GetResolved(existingConnection),
                    ApiUpdate(mutation.id, UpdatePayload(mutation.form, existingConnection))>>
    /\ UNCHANGED <<sheetOpen, connection, formData, formErrors>>
    /\ UNCHANGED <<vars, alertVars, forceRunVars>>

(* ConnectionApi.Get fails: onError, lines 224-227 *)
GetRejects ==
    /\ mutation.kind = "update" /\ mutation.stage = "get"
    /\ mutation' = NoMutation
    /\ qbTrace' = <<ToastFailure("Failed to update connection")>>
    /\ UNCHANGED <<sheetOpen, connection, formData, formErrors>>
    /\ UNCHANGED <<vars, alertVars, forceRunVars>>

(* ConnectionApi.Update answers: onSuccess, lines 217-223, or onError *)
UpdateSettles(ok) ==
    /\ mutation.kind = "update" /\ mutation.stage = "update"
    /\ mutation' = NoMutation
    /\ qbTrace' = IF ok
                  THEN <<ToastSuccess("QuickBooks connection updated successfully"),
                         OnSaveConnection(SavedConnection), OnOpenChange(FALSE)>>
                  ELSE <<ToastFailure("Failed to update connection")>>
    /\ UNCHANGED <<sheetOpen, connection, formData, formErrors>>
    /\ UNCHANGED <<vars, alertVars, forceRunVars>>

(* the page renders the drawer with other props: the effect of lines 64-99 *)
QuickBooksPropsChange(isShown, conn) ==
    /\ <<isShown, conn>> # <<sheetOpen, connection>>
    /\ sheetOpen' = isShown
    /\ connection' = conn
    /\ IF isShown
       THEN formData' = ResetForm(conn) /\ formErrors' = {}
       ELSE UNCHANGED <<formData, formErrors>>
    /\ qbTrace' = <<>>
    /\ UNCHANGED mutation
    /\ UNCHANGED <<vars, alertVars, forceRunVars>>

InitQuickBooksDrawer ==
    /\ ViewNotRendered
    /\ open = Null /\ alertSettings = Null /\ localAlertSettings = Null
    /\ alertTrace = Null
    /\ isOpen = Null /\ exportLoading = Null /\ runType = Null
    /\ startDateTime = Null /\ endDateTime = Null /\ errors = Null
    /\ runTrace = Null
    /\ sheetOpen \in BOOLEAN
    /\ connection \in ConnectionInputs
    /\ formData = IF sheetOpen THEN ResetForm(connection) ELSE EmptyForm
    /\ formErrors = {}
    /\ mutation = NoMutation
    /\ qbTrace = <<>>

NextQuickBooksDrawer ==
    \/ \E value \in FieldTexts("name") : ChangeField("name", value)
    \/ \E field \in CredentialFields :
           \E value \in FieldTexts(field) : ChangeField(field, value)
    \/ \E value \in {"sandbox", "production"} : ChangeField("environment", value)
    \/ \E value \in IncomeAccountTexts : ChangeField("income_account_id", value)
    \/ \E value \in BOOLEAN : ToggleInvoice(value)
    \/ SaveConnection
    \/ CancelSheet
    \/ DismissSheet
    \/ \E ok \in BOOLEAN : CreateSettles(ok)
    \/ \E existingConnection \in ExistingConnections : GetResolves(existingConnection)
    \/ GetRejects
    \/ \E ok \in BOOLEAN : UpdateSettles(ok)
    \/ \E isShown \in BOOLEAN, conn \in ConnectionInputs :
           QuickBooksPropsChange(isShown, conn)

SpecQuickBooksDrawer == InitQuickBooksDrawer /\ [][NextQuickBooksDrawer]_quickBooksVars

(* the text is empty or consists of blanks *)
Blank(text) == \A i \in 1..Len(text) : text[i] = " "

RequiredFields ==
    IF connection = Undefined THEN {"name"} \cup CredentialFields ELSE {"name"}

FormValid == \A field \in RequiredFields : ~Blank(formData[field])

(* C26: handleSave starts one mutation if and only if the required fields  *)
(* (the name when a connection is edited; the name, client_id,             *)
(* client_secret, access_token, refresh_token and realm_id otherwise) are  *)
(* not blank: the update mutation, which begins with ConnectionApi.Get,    *)
(* when a connection is edited, the create mutation otherwise.  When a     *)
(* required field is blank it calls nothing, no mutation is pending and    *)
(* the sheet stays open.                                                   *)
C26_SaveStartsOneMutation ==
    [][SaveConnection
        => IF FormValid
           THEN /\ Len(qbTrace') = 1
                /\ IF connection # Undefined
                   THEN /\ mutation'.kind = "update"
                        /\ qbTrace'[1] = ApiGet(connection.id)
                   ELSE /\ mutation'.kind = "create"
                        /\ qbTrace'[1].call = "ConnectionApi.Create"
           ELSE /\ qbTrace' = <<>>
                /\ mutation' = NoMutation
                /\ sheetOpen']_quickBooksVars

(* a connection was created from a form with a blank-free name and         *)
(* credentials                                                             *)
C26_Witness ==
    /\ connection = Undefined
    /\ mutation = [kind |-> "create"]
    /\ qbTrace = <<ApiCreate(CreatePayload(formData))>>
    /\ formData.client_id = <<"q">>

(* the sync_config has an invoice entry {inbound: false, outbound: true}   *)
(* when the toggle is on, and no entry when it is off                      *)
SyncConfigMatches(syncConfig, toggle) ==
    /\ DOMAIN syncConfig = IF toggle THEN {"invoice"} ELSE {}
    /\ toggle => syncConfig.invoice = [inbound |-> FALSE, outbound |-> TRUE]

(* the secret data of the payload has every field of the existing secret   *)
(* data, but for income_account_id, with its value                         *)
PreservesSecret(payload, existingConnection) ==
    LET existingSecretData ==
            FieldOr(existingConnection, "encrypted_secret_data", EmptyObject)
    IN  \A key \in DOMAIN existingSecretData \ {"income_account_id"} :
            /\ key \in DOMAIN payload.encrypted_secret_data
            /\ payload.encrypted_secret_data[key] = existingSecretData[key]

(* C27: the payload of ConnectionApi.Update has every field of the secret  *)
(* data that ConnectionApi.Get returned, income_account_id excepted, with  *)
(* its value; and the sync_config of the payloads of Create and Update has *)
(* the invoice entry {inbound: false, outbound: true} exactly when the     *)
(* invoice toggle was on when Save was pressed, and is empty otherwise.    *)
C27_UpdatePreservesSecret ==
    \A i \in 1..Len(qbTrace) :
        /\ qbTrace[i].call = "ConnectionApi.Update"
            => /\ i > 1 /\ qbTrace[i - 1].call = "ConnectionApi.Get resolved"
               /\ PreservesSecret(qbTrace[i].args[2], qbTrace[i - 1].args[1])
               /\ SyncConfigMatches(qbTrace[i].args[2].sync_config,
                                    mutation.form.sync_config.invoice)
        /\ qbTrace[i].call = "ConnectionApi.Create"
            => SyncConfigMatches(qbTrace[i].args[1].sync_config,
                                 formData.sync_config.invoice)

(* an update with the invoice toggle on, for a connection whose secret     *)
(* data the page does not have: the client id of the form is empty, the    *)
(* stored one is kept                                                      *)
C27_Witness ==
    /\ Len(qbTrace) = 2
    /\ qbTrace[2].call = "ConnectionApi.Update"
    /\ "encrypted_secret_data" \in DOMAIN qbTrace[1].args[1]
    /\ qbTrace[1].args[1].encrypted_secret_data = StoredSecret
    /\ qbTrace[2].args[2].encrypted_secret_data.client_id = StoredSecret.client_id
    /\ mutation.form.client_id = <<>>
    /\ mutation.form.sync_config.invoice

====
